---- MODULE Spec2Model ----
(***************************************************************************)
(* FKG-core: canonicalization and content-addressed identifiers            *)
(* (fkg/ids), the PKG importer/exporter (fkg/pkg), the storage upserts     *)
(* (fkg/storage) and the federation puller (fkg/federation).               *)
(*                                                                         *)
(* JSON values are tagged records; a string is a sequence of one-character *)
(* strings; a dict is the sequence of its entries in insertion order.      *)
(***************************************************************************)
EXTENDS Integers, Sequences, FiniteSets, TLC

VARIABLES
    r1,        \* canonicalizer: the payload as first given
    r2,        \* canonicalizer: a rewriting of r1 handed to the same functions
    db,        \* the committed rows of the database
    prev,      \* db as it was before the last command
    pkgdir,    \* the PKG directory the commands read and write
    last,      \* the last command: its arguments and what it reported
    nrun,       \* the number of commands run so far
    pull,      \* the call of pull_all_remotes in progress
    sess,      \* storage API: the view of the caller's open session
    tmp,       \* pull_remote: its temporary directory and where the call stands
    feed       \* changelog: the open sessions' events and a consumer's cursor

canonVars == <<r1, r2>>
storeVars == <<db, prev, pkgdir, last, nrun, pull, sess, tmp, feed>>
vars == <<r1, r2, db, prev, pkgdir, last, nrun, pull, sess, tmp, feed>>

----------------------------------------------------------------------------
(* JSON values *)

JStr(s) == [t |-> "str", s |-> s]
JNum(n) == [t |-> "num", n |-> n]
JBool(b) == [t |-> "bool", b |-> b]
JNull == [t |-> "null"]
JList(l) == [t |-> "list", l |-> l]
JDict(d) == [t |-> "dict", d |-> d]
Entry(k, v) == [k |-> k, v |-> v]

\* Python's str ordering on the keys the model uses (sorted(payload.keys())).
KeyOrder ==
    <<"a", "authority_id", "b", "dst_id", "id", "name", "note",
      "organization_name", "properties", "schema_version", "service_name",
      "src_id", "type">>

DictKeys(d) == {d.d[i].k : i \in 1..Len(d.d)}
DictHas(d, k) == k \in DictKeys(d)
\* dict.get(k): None when the key is absent
DictGet(d, k) ==
    IF DictHas(d, k)
    THEN d.d[CHOOSE i \in 1..Len(d.d) : d.d[i].k = k].v
    ELSE JNull
\* {k: v for k, v in d.items() if k not in drop}
DictWithout(d, drop) == JDict(SelectSeq(d.d, LAMBDA e : e.k \notin drop))
SortedKeys(d) == SelectSeq(KeyOrder, LAMBDA k : DictHas(d, k))

----------------------------------------------------------------------------
(* fkg/ids/canonicalize.py *)

Whitespace == {" "}
\* a piece of several characters stands for a word of lower-case letters,
\* but for the edge type, which str.lower() changes
UpperToLower ==
    [c \in {"A", "B", "C", "D", "E", "I", "L", "M", "N", "O", "P", "R", "T", "Y",
            "ORG_OFFERS_SERVICE"} |->
        CASE c = "A" -> "a" [] c = "B" -> "b" [] c = "C" -> "c" [] c = "D" -> "d"
          [] c = "E" -> "e" [] c = "I" -> "i" [] c = "L" -> "l" [] c = "M" -> "m"
          [] c = "N" -> "n" [] c = "O" -> "o" [] c = "P" -> "p" [] c = "R" -> "r"
          [] c = "T" -> "t" [] c = "Y" -> "y"
          [] c = "ORG_OFFERS_SERVICE" -> "org_offers_service"]
Lower(c) == IF c \in DOMAIN UpperToLower THEN UpperToLower[c] ELSE c
\* \w: letters, digits and underscore
WordChars ==
    {"a", "b", "c", "d", "e", "i", "l", "m", "n", "o", "p", "r", "t", "y",
     "A", "B", "C", "D", "E", "I", "L", "M", "N", "O", "P", "R", "T", "Y", "_", "1"}

RECURSIVE LowerStr(_)
LowerStr(s) == IF s = <<>> THEN <<>> ELSE <<Lower(Head(s))>> \o LowerStr(Tail(s))

RECURSIVE LStrip(_)
LStrip(s) == IF s # <<>> /\ Head(s) \in Whitespace THEN LStrip(Tail(s)) ELSE s

\* " ".join(s.split()): the words of s joined by single spaces
RECURSIVE JoinSplit(_)
JoinSplit(s) ==
    LET u == LStrip(s) IN
    IF u = <<>> THEN <<>>
    ELSE IF Tail(u) # <<>> /\ Head(Tail(u)) \in Whitespace
         THEN LET rest == JoinSplit(Tail(u)) IN
              IF rest = <<>> THEN <<Head(u)>> ELSE <<Head(u), " ">> \o rest
         ELSE <<Head(u)>> \o JoinSplit(Tail(u))

\* NFKC is the identity on the model's alphabet.
normalize_string(s) == JoinSplit(LowerStr(s))

EndsWith(s, w) ==
    /\ Len(s) >= Len(w)
    /\ SubSeq(s, Len(s) - Len(w) + 1, Len(s)) = w

RECURSIVE RStripSpace(_)
RStripSpace(s) ==
    IF s # <<>> /\ s[Len(s)] \in Whitespace
    THEN RStripSpace(SubSeq(s, 1, Len(s) - 1))
    ELSE s

\* re.sub(r"\s+<word>$", "", s): the word at the end, after at least one space
StripWord(s, w) ==
    IF EndsWith(s, w) /\ Len(s) > Len(w) /\ s[Len(s) - Len(w)] \in Whitespace
    THEN RStripSpace(SubSeq(s, 1, Len(s) - Len(w)))
    ELSE s

\* re.sub(r"\s+<word>\.?$", "", s)
StripWordDot(s, w) ==
    IF StripWord(s, w \o <<".">>) # s THEN StripWord(s, w \o <<".">>)
    ELSE StripWord(s, w)

\* the suffix patterns of normalize_name, in list order; dot: pattern has \.?
Suffixes ==
    << [w |-> <<"i", "n", "c">>, dot |-> TRUE],
       [w |-> <<"l", "l", "c">>, dot |-> TRUE],
       [w |-> <<"c", "o", "r", "p">>, dot |-> TRUE],
       [w |-> <<"c", "o", "r", "p", "o", "r", "a", "t", "i", "o", "n">>, dot |-> FALSE],
       [w |-> <<"i", "n", "c", "o", "r", "p", "o", "r", "a", "t", "e", "d">>, dot |-> FALSE],
       [w |-> <<"l", "t", "d">>, dot |-> TRUE],
       [w |-> <<"l", "i", "m", "i", "t", "e", "d">>, dot |-> FALSE],
       [w |-> <<"c", "o">>, dot |-> TRUE],
       [w |-> <<"c", "o", "m", "p", "a", "n", "y">>, dot |-> FALSE] >>

RECURSIVE StripSuffixes(_, _)
StripSuffixes(s, i) ==
    IF i > Len(Suffixes) THEN s
    ELSE StripSuffixes(IF Suffixes[i].dot THEN StripWordDot(s, Suffixes[i].w)
                       ELSE StripWord(s, Suffixes[i].w), i + 1)

\* re.sub(r"[^\w\s]", "", s)
RemovePunctuation(s) == SelectSeq(s, LAMBDA c : c \in WordChars \/ c \in Whitespace)

normalize_name(name) ==
    JoinSplit(RemovePunctuation(StripSuffixes(normalize_string(name), 1)))

NameFields == {"name", "organization_name", "service_name"}

RECURSIVE canonicalize(_, _)
RECURSIVE CanonList(_, _)
RECURSIVE CanonEntries(_, _, _)

\* the inner loop of canonicalize over the items of a list value
CanonList(items, nn) ==
    IF items = <<>> THEN <<>>
    ELSE LET item == Head(items)
             rest == CanonList(Tail(items), nn)
         IN  CASE item.t = "dict" ->
                    LET ci == canonicalize(item, nn) IN
                    IF ci.d # <<>> THEN <<ci>> \o rest ELSE rest
               [] item.t = "str" ->
                    LET normalized == normalize_string(item.s) IN
                    IF normalized # <<>> THEN <<JStr(normalized)>> \o rest ELSE rest
               [] item.t = "null" -> rest
               [] OTHER -> <<item>> \o rest

\* the outer loop of canonicalize over sorted(payload.keys())
CanonEntries(payload, keys, nn) ==
    IF keys = <<>> THEN <<>>
    ELSE LET key == Head(keys)
             value == DictGet(payload, key)
             rest == CanonEntries(payload, Tail(keys), nn)
         IN  CASE value.t = "null" -> rest
               [] value.t = "dict" ->
                    LET cv == canonicalize(value, nn) IN
                    IF cv.d # <<>> THEN <<Entry(key, cv)>> \o rest ELSE rest
               [] value.t = "list" ->
                    LET cl == CanonList(value.l, nn) IN
                    IF cl # <<>> THEN <<Entry(key, JList(cl))>> \o rest ELSE rest
               [] value.t = "str" ->
                    LET normalized ==
                            IF nn /\ key \in NameFields
                            THEN normalize_name(value.s)
                            ELSE normalize_string(value.s)
                    IN  IF normalized # <<>>
                        THEN <<Entry(key, JStr(normalized))>> \o rest
                        ELSE rest
               [] OTHER -> <<Entry(key, value)>> \o rest

canonicalize(payload, nn) ==
    IF payload.t # "dict" THEN payload
    ELSE JDict(CanonEntries(payload, SortedKeys(payload), nn))

\* json.dumps(value, sort_keys=True, separators=(",", ":")) as a token sequence
RECURSIVE Dumps(_)
RECURSIVE DumpsItems(_)
RECURSIVE DumpsEntries(_, _)

DumpsItems(items) ==
    IF items = <<>> THEN <<>>
    ELSE Dumps(Head(items))
         \o (IF Tail(items) = <<>> THEN <<>> ELSE <<",">> \o DumpsItems(Tail(items)))

DumpsEntries(d, keys) ==
    IF keys = <<>> THEN <<>>
    ELSE <<"\"", Head(keys), "\"", ":">> \o Dumps(DictGet(d, Head(keys)))
         \o (IF Tail(keys) = <<>> THEN <<>> ELSE <<",">> \o DumpsEntries(d, Tail(keys)))

Dumps(v) ==
    CASE v.t = "str" -> <<"\"">> \o v.s \o <<"\"">>
      [] v.t = "num" -> <<ToString(v.n)>>
      [] v.t = "bool" -> IF v.b THEN <<"true">> ELSE <<"false">>
      [] v.t = "null" -> <<"null">>
      [] v.t = "list" -> <<"[">> \o DumpsItems(v.l) \o <<"]">>
      [] v.t = "dict" -> <<"{">> \o DumpsEntries(v, SortedKeys(v)) \o <<"}">>

canonical_json(payload) == Dumps(canonicalize(payload, TRUE))

----------------------------------------------------------------------------
(* fkg/ids/make_id.py *)

\* hashlib.sha256(...).hexdigest()[:16], taken as collision-free: the digest
\* of a text is the text.
Sha256(text) == text

\* f"{namespace}:{entity_type}:{short_hash}"; a Python str is a sequence of
\* pieces, and namespace and entity_type are such sequences
make_id(namespace, entity_type, payload) ==
    LET payload_for_hash == DictWithout(payload, {"id", "authority_id"})
        canonical == canonical_json(payload_for_hash)
        short_hash == Sha256(canonical)
    IN  namespace \o <<":">> \o entity_type \o <<":">> \o short_hash

\* Python truthiness of a JSON value
Truthy(v) ==
    CASE v.t = "null" -> FALSE
      [] v.t = "str" -> v.s # <<>>
      [] v.t = "num" -> v.n # 0
      [] v.t = "bool" -> v.b
      [] v.t = "list" -> v.l # <<>>
      [] v.t = "dict" -> v.d # <<>>

make_edge_id(namespace, edge_type, src_id, dst_id, properties) ==
    LET payload ==
            JDict(<<Entry("type", JStr(edge_type)), Entry("src_id", JStr(src_id)),
                    Entry("dst_id", JStr(dst_id))>>
                  \o (IF Truthy(properties) THEN <<Entry("properties", properties)>>
                      ELSE <<>>))
        canonical == canonical_json(payload)
        short_hash == Sha256(canonical)
    IN  namespace \o <<":", "edge", ":">> \o short_hash

----------------------------------------------------------------------------
(* fkg/settings.py, fkg/validate *)

\* InstanceSettings.id
LocalId == <<"local.dev">>
\* the default of schema_version arguments
DefaultSchemaVersion == <<"v0.1">>

\* dict.get(k, default): the default only when the key is absent
DictGetDefault(d, k, default) == IF DictHas(d, k) THEN DictGet(d, k) ELSE default

\* the schema directories and files the registry finds
SchemaVersions == {<<"v0.1">>}
KnownEntityTypes == {<<"organization">>, <<"service">>, <<"location">>, <<"person">>}
EdgeTypeEnum == {<<"ORG_OFFERS_SERVICE">>}

\* Draft7Validator(schema).iter_errors(data) is empty, for an entity schema:
\* name is required and type is the constant of the schema
EntitySchemaAccepts(data, entity_type) ==
    /\ DictGet(data, "type") = JStr(entity_type)
    /\ DictGet(data, "name").t = "str"

\* the same for the edge schema: id, type, src_id and dst_id are required and
\* type is one of an enumeration
EdgeSchemaAccepts(data) ==
    /\ DictGet(data, "id").t = "str"
    /\ DictGet(data, "src_id").t = "str"
    /\ DictGet(data, "dst_id").t = "str"
    /\ DictGet(data, "type").t = "str"
    /\ DictGet(data, "type").s \in EdgeTypeEnum

\* validate_entity returns (TRUE) or raises ValidationError (FALSE)
validate_entity(data, entity_type, version) ==
    LET et == IF entity_type.t = "null" THEN DictGet(data, "type") ELSE entity_type IN
    /\ et.t = "str"
    /\ version.t = "str"
    /\ version.s \in SchemaVersions
    /\ et.s \in KnownEntityTypes
    /\ EntitySchemaAccepts(data, et.s)

validate_edge(data, version) ==
    /\ version.t = "str"
    /\ version.s \in SchemaVersions
    /\ EdgeSchemaAccepts(data)

----------------------------------------------------------------------------
(* fkg/changelog/append.py, fkg/storage *)

\* A store is the rows a session sees: entities, edges, sources and events in
\* insertion order, and seq, the last value the events.seq sequence gave out.
\* by is not a column: it numbers the operation that last wrote the row.
EmptyStore ==
    [entities |-> <<>>, edges |-> <<>>, sources |-> <<>>, events |-> <<>>, seq |-> 0]

Raise(st, err) == [ok |-> FALSE, err |-> err, st |-> st]
Return(st) == [ok |-> TRUE, err |-> "", st |-> st]

\* a session.get that finds no row
SessionGet_finds_nothing(rows, id) == 0

\* session.get(Model, id): the index of the row, 0 for None
SessionGet(rows, id) ==
    IF \E i \in 1..Len(rows) : rows[i].id = id
    THEN CHOOSE i \in 1..Len(rows) : rows[i].id = id
    ELSE 0

append_event(st, event_type, authority_id, payload) ==
    [st EXCEPT !.seq = @ + 1,
               !.events = Append(@, [seq |-> st.seq + 1,
                                     event_type |-> event_type,
                                     authority_id |-> authority_id,
                                     payload |-> payload])]

EntityMetaKeys == {"id", "type", "schema_version", "authority_id"}

\* session.flush(): the database takes the statements or refuses them
Flush(st, flushFails) == IF flushFails THEN Raise(st, "StorageError") ELSE Return(st)

\* an upsert that hands an existing row to the authority of the call
EntityStorage_upsert_row_reowning(st, data, et, auth, schema_version, log_event, run, flushFails, entity_id) ==
    LET existing == SessionGet(st.entities, entity_id)
        entity_data == DictWithout(data, {"id", "type", "schema_version", "authority_id"})
        rows == IF existing # 0
                THEN [st.entities EXCEPT ![existing].data = entity_data,
                                         ![existing].schema_version = schema_version.s,
                                         ![existing].authority_id = auth,
                                         ![existing].by = run]
                ELSE Append(st.entities,
                            [id |-> entity_id, type |-> et.s,
                             schema_version |-> schema_version.s,
                             authority_id |-> auth, data |-> entity_data,
                             by |-> run])
        event_type == IF existing # 0 THEN "update_entity" ELSE "create_entity"
        st1 == [st EXCEPT !.entities = rows]
    IN  Flush(IF log_event
              THEN append_event(st1, event_type, auth,
                                JDict(<<Entry("entity_id", JStr(entity_id)),
                                        Entry("type", JStr(et.s))>>))
              ELSE st1,
              flushFails)

\* EntityStorage.upsert from "existing = self.get(entity_id)" on
EntityStorage_upsert_row(st, data, et, auth, schema_version, log_event, run, flushFails, entity_id) ==
    LET existing == SessionGet(st.entities, entity_id)
        entity_data == DictWithout(data, EntityMetaKeys)
        rows == IF existing # 0
                THEN [st.entities EXCEPT ![existing].data = entity_data,
                                         ![existing].schema_version = schema_version.s,
                                         ![existing].by = run]
                ELSE Append(st.entities,
                            [id |-> entity_id, type |-> et.s,
                             schema_version |-> schema_version.s,
                             authority_id |-> auth, data |-> entity_data,
                             by |-> run])
        event_type == IF existing # 0 THEN "update_entity" ELSE "create_entity"
        st1 == [st EXCEPT !.entities = rows]
    IN  Flush(IF log_event
              THEN append_event(st1, event_type, auth,
                                JDict(<<Entry("entity_id", JStr(entity_id)),
                                        Entry("type", JStr(et.s))>>))
              ELSE st1,
              flushFails)

EntityStorage_upsert(st, data, entity_type, authority_id, schema_version, validate, log_event, run, flushFails) ==
    LET et == IF entity_type.t = "null" THEN DictGet(data, "type") ELSE entity_type
        auth == IF authority_id.t = "null" THEN LocalId ELSE authority_id.s
        given == DictGet(data, "id")
    IN
    IF et.t = "null" THEN Raise(st, "ValueError")
    ELSE IF validate /\ ~validate_entity(data, et, schema_version)
    THEN Raise(st, "ValidationError")
    ELSE EntityStorage_upsert_row(
             st, data, et, auth, schema_version, log_event, run, flushFails,
             IF given.t = "null" THEN make_id(auth, et.s, data) ELSE given.s)

EdgeMetaKeys ==
    {"id", "type", "src_id", "dst_id", "schema_version", "authority_id", "properties"}

\* EdgeStorage.upsert from "existing = self.get(edge_id)" on
EdgeStorage_upsert_row(st, data, auth, schema_version, log_event, run, flushFails, edge_id) ==
    LET edge_type == DictGet(data, "type")
        src_id == DictGet(data, "src_id")
        dst_id == DictGet(data, "dst_id")
        properties == DictGetDefault(data, "properties", JDict(<<>>))
        existing == SessionGet(st.edges, edge_id)
        edge_data == JDict(<<Entry("properties", properties)>>
                           \o DictWithout(data, EdgeMetaKeys).d)
        rows == IF existing # 0
                THEN [st.edges EXCEPT ![existing].data = edge_data,
                                      ![existing].schema_version = schema_version.s,
                                      ![existing].by = run]
                ELSE Append(st.edges,
                            [id |-> edge_id, type |-> edge_type.s,
                             src_id |-> src_id.s, dst_id |-> dst_id.s,
                             schema_version |-> schema_version.s,
                             authority_id |-> auth, data |-> edge_data,
                             by |-> run])
        event_type == IF existing # 0 THEN "update_edge" ELSE "create_edge"
        st1 == [st EXCEPT !.edges = rows]
    IN  Flush(IF log_event
              THEN append_event(st1, event_type, auth,
                                JDict(<<Entry("edge_id", JStr(edge_id)),
                                        Entry("type", edge_type),
                                        Entry("src_id", src_id),
                                        Entry("dst_id", dst_id)>>))
              ELSE st1,
              flushFails)

\* an upsert that derives the id from every field of the record
EdgeStorage_upsert_hashing_data(st, data, authority_id, schema_version, validate, log_event, run, flushFails) ==
    LET auth == IF authority_id.t = "null" THEN LocalId ELSE authority_id.s
        given == DictGet(data, "id")
    IN
    IF ~(Truthy(DictGet(data, "type")) /\ Truthy(DictGet(data, "src_id"))
         /\ Truthy(DictGet(data, "dst_id")))
    THEN Raise(st, "ValueError")
    ELSE IF validate /\ ~validate_edge(data, schema_version)
    THEN Raise(st, "ValidationError")
    ELSE EdgeStorage_upsert_row(
             st, data, auth, schema_version, log_event, run, flushFails,
             IF given.t = "null"
             THEN make_edge_id(auth, DictGet(data, "type").s, DictGet(data, "src_id").s,
                               DictGet(data, "dst_id").s, DictWithout(data, {"id"}))
             ELSE given.s)

EdgeStorage_upsert(st, data, authority_id, schema_version, validate, log_event, run, flushFails) ==
    LET edge_type == DictGet(data, "type")
        src_id == DictGet(data, "src_id")
        dst_id == DictGet(data, "dst_id")
        auth == IF authority_id.t = "null" THEN LocalId ELSE authority_id.s
        given == DictGet(data, "id")
    IN
    IF ~(Truthy(edge_type) /\ Truthy(src_id) /\ Truthy(dst_id))
    THEN Raise(st, "ValueError")
    ELSE IF validate /\ ~validate_edge(data, schema_version)
    THEN Raise(st, "ValidationError")
    ELSE EdgeStorage_upsert_row(
             st, data, auth, schema_version, log_event, run, flushFails,
             IF given.t = "null"
             THEN make_edge_id(auth, edge_type.s, src_id.s, dst_id.s,
                               DictGetDefault(data, "properties", JDict(<<>>)))
             ELSE given.s)

\* SourceStorage.upsert_source from "existing = self.get_source(source_id)" on
SourceStorage_upsert_source_row(st, data, run, flushFails, source_id) ==
    LET existing == SessionGet(st.sources, source_id)
        source_data == DictWithout(data, {"id"})
        rows == IF existing # 0
                THEN [st.sources EXCEPT ![existing].data = source_data,
                                        ![existing].by = run]
                ELSE Append(st.sources,
                            [id |-> source_id, data |-> source_data, by |-> run])
    IN  Flush([st EXCEPT !.sources = rows], flushFails)

SourceStorage_upsert_source(st, data, run, flushFails) ==
    LET given == DictGet(data, "id")
    IN  SourceStorage_upsert_source_row(
            st, data, run, flushFails,
            IF given.t = "null"
            THEN make_id(<<"source">>,
                         DictGetDefault(data, "type", JStr(<<"unknown">>)).s,
                         data)
            ELSE given.s)

----------------------------------------------------------------------------
(* fkg/pkg/manifest.py, fkg/pkg/import_.py *)

\* A package directory: manifestOk (manifest.json exists and passes its
\* schema), files (the kinds manifest.files names; a kind stands for its file
\* name), checksums (file -> recorded digest) and disk (file -> content, for
\* the files that exist; a content is the sequence of the records of its
\* lines).
FileOrder == <<"entities", "edges", "sources", "changelog">>

compute_file_checksum(content) == Sha256(content)

\* a verify_checksums that returns at the first entry it finds wrong
verify_checksums_stopping_at_first(pkg) ==
    LET listed == SelectSeq(FileOrder, LAMBDA f : f \in DOMAIN pkg.checksums)
        bad == SelectSeq(listed,
                         LAMBDA f : \/ f \notin DOMAIN pkg.disk
                                    \/ compute_file_checksum(pkg.disk[f]) # pkg.checksums[f])
    IN  IF bad = <<>> THEN <<>>
        ELSE <<[file |-> bad[1],
                what |-> IF bad[1] \notin DOMAIN pkg.disk THEN "file missing"
                         ELSE "checksum mismatch"]>>

\* a verify_checksums that passes over the files that are missing
verify_checksums_skipping_missing(pkg) ==
    LET listed == SelectSeq(FileOrder, LAMBDA f : f \in DOMAIN pkg.checksums)
        bad == SelectSeq(listed,
                         LAMBDA f : /\ f \in DOMAIN pkg.disk
                                    /\ compute_file_checksum(pkg.disk[f]) # pkg.checksums[f])
    IN  [i \in 1..Len(bad) |-> [file |-> bad[i], what |-> "checksum mismatch"]]

verify_checksums(pkg) ==
    LET listed == SelectSeq(FileOrder, LAMBDA f : f \in DOMAIN pkg.checksums)
        bad == SelectSeq(listed,
                         LAMBDA f : \/ f \notin DOMAIN pkg.disk
                                    \/ compute_file_checksum(pkg.disk[f]) # pkg.checksums[f])
    IN  [i \in 1..Len(bad) |->
            [file |-> bad[i],
             what |-> IF bad[i] \notin DOMAIN pkg.disk THEN "file missing"
                      ELSE "checksum mismatch"]]

\* The import loops carry acc: ok/err/st as the upserts return them, n the
\* number of upserts made so far and count the records of the current file.
\* failAt numbers the flush the database refuses (0: none).
Counted(acc, r) ==
    [acc EXCEPT !.ok = r.ok, !.err = r.err, !.st = r.st, !.n = @ + 1, !.count = @ + 1]

RECURSIVE import_sources(_, _, _, _)
import_sources(acc, recs, run, failAt) ==
    IF recs = <<>> \/ ~acc.ok THEN acc
    ELSE import_sources(
             Counted(acc, SourceStorage_upsert_source(acc.st, Head(recs), run,
                                                      acc.n + 1 = failAt)),
             Tail(recs), run, failAt)

RECURSIVE import_entities(_, _, _, _, _, _)
import_entities(acc, recs, authority_id, validate, run, failAt) ==
    IF recs = <<>> \/ ~acc.ok THEN acc
    ELSE LET data == Head(recs)
         IN  import_entities(
                 Counted(acc, EntityStorage_upsert(
                                  acc.st, data, DictGet(data, "type"), JStr(authority_id),
                                  DictGetDefault(data, "schema_version",
                                                 JStr(DefaultSchemaVersion)),
                                  validate, TRUE, run, acc.n + 1 = failAt)),
                 Tail(recs), authority_id, validate, run, failAt)

RECURSIVE import_edges(_, _, _, _, _, _)
import_edges(acc, recs, authority_id, validate, run, failAt) ==
    IF recs = <<>> \/ ~acc.ok THEN acc
    ELSE LET data == Head(recs)
         IN  import_edges(
                 Counted(acc, EdgeStorage_upsert(
                                  acc.st, data, JStr(authority_id),
                                  DictGetDefault(data, "schema_version",
                                                 JStr(DefaultSchemaVersion)),
                                  validate, TRUE, run, acc.n + 1 = failAt)),
                 Tail(recs), authority_id, validate, run, failAt)

NoStats == [entities |-> 0, edges |-> 0, sources |-> 0]

ResolveAuthority(authority) == IF authority = <<"local">> THEN LocalId ELSE authority

\* import_pkg file by file.  acc carries, besides what the loops need, stats:
\* the counts the loops of the files before returned.  A file is passed over
\* when an earlier statement raised, when the manifest does not name it and
\* when it does not exist.
HasFile(pkg, f) == f \in pkg.files /\ f \in DOMAIN pkg.disk

FileDone(acc, f) == [acc EXCEPT !.stats[f] = acc.count, !.count = 0]

import_pkg_sources(acc, pkg, run, failAt) ==
    IF acc.ok /\ HasFile(pkg, "sources")
    THEN FileDone(import_sources(acc, pkg.disk["sources"], run, failAt), "sources")
    ELSE acc

import_pkg_entities(acc, pkg, authority_id, validate, run, failAt) ==
    IF acc.ok /\ HasFile(pkg, "entities")
    THEN FileDone(import_entities(acc, pkg.disk["entities"], authority_id, validate,
                                  run, failAt), "entities")
    ELSE acc

import_pkg_edges(acc, pkg, authority_id, validate, run, failAt) ==
    IF acc.ok /\ HasFile(pkg, "edges")
    THEN FileDone(import_edges(acc, pkg.disk["edges"], authority_id, validate,
                               run, failAt), "edges")
    ELSE acc

\* session.commit() and the return of import_pkg
import_pkg_commit(acc, authority_id, failAt) ==
    IF ~acc.ok
    THEN [ok |-> FALSE, err |-> acc.err, st |-> acc.st,
          authority_id |-> authority_id, stats |-> NoStats]
    ELSE IF acc.n + 1 = failAt
    THEN [ok |-> FALSE, err |-> "StorageError", st |-> acc.st,
          authority_id |-> authority_id, stats |-> NoStats]
    ELSE [ok |-> TRUE, err |-> "", st |-> acc.st,
          authority_id |-> authority_id, stats |-> acc.stats]

\* an import_pkg that imports the entities file before the sources file
import_pkg_entities_first(st, pkg, authority, verify_checksums_flag, validate, run, failAt) ==
    LET authority_id == ResolveAuthority(authority)
        failed(err) == [ok |-> FALSE, err |-> err, st |-> st,
                        authority_id |-> authority_id, stats |-> NoStats]
        a0 == [ok |-> TRUE, err |-> "", st |-> st, n |-> 0, count |-> 0,
               stats |-> NoStats]
    IN
    IF ~pkg.manifestOk THEN failed("ManifestError")
    ELSE IF verify_checksums_flag /\ verify_checksums(pkg) # <<>>
    THEN failed("ImportError")
    ELSE import_pkg_commit(
             import_pkg_edges(
                 import_pkg_sources(
                     import_pkg_entities(a0, pkg, authority_id, validate, run, failAt),
                     pkg, run, failAt),
                 pkg, authority_id, validate, run, failAt),
             authority_id, failAt)

\* import_pkg on a session whose view is st.  The result: ok (returned, and
\* then committed), err (the exception raised), st (the session's view when
\* it returned or raised), authority_id and stats.
import_pkg(st, pkg, authority, verify_checksums_flag, validate, run, failAt) ==
    LET authority_id == ResolveAuthority(authority)
        failed(err) == [ok |-> FALSE, err |-> err, st |-> st,
                        authority_id |-> authority_id, stats |-> NoStats]
        a0 == [ok |-> TRUE, err |-> "", st |-> st, n |-> 0, count |-> 0,
               stats |-> NoStats]
    IN
    IF ~pkg.manifestOk THEN failed("ManifestError")
    ELSE IF verify_checksums_flag /\ verify_checksums(pkg) # <<>>
    THEN failed("ImportError")
    ELSE import_pkg_commit(
             import_pkg_edges(
                 import_pkg_entities(
                     import_pkg_sources(a0, pkg, run, failAt),
                     pkg, authority_id, validate, run, failAt),
                 pkg, authority_id, validate, run, failAt),
             authority_id, failAt)

----------------------------------------------------------------------------
(* fkg/models, fkg/pkg/export.py, fkg/pkg/manifest.py *)

Entity_to_export_dict(row) ==
    JDict(<<Entry("id", JStr(row.id)),
            Entry("type", JStr(row.type)),
            Entry("schema_version", JStr(row.schema_version)),
            Entry("authority_id", JStr(row.authority_id))>> \o row.data.d)

\* an export of edges that leaves dst_id out
Edge_to_export_dict_without_dst(row) ==
    JDict(<<Entry("id", JStr(row.id)),
            Entry("type", JStr(row.type)),
            Entry("src_id", JStr(row.src_id)),
            Entry("schema_version", JStr(row.schema_version)),
            Entry("authority_id", JStr(row.authority_id)),
            Entry("properties", DictGetDefault(row.data, "properties", JDict(<<>>)))>>)

Edge_to_export_dict(row) ==
    JDict(<<Entry("id", JStr(row.id)),
            Entry("type", JStr(row.type)),
            Entry("src_id", JStr(row.src_id)),
            Entry("dst_id", JStr(row.dst_id)),
            Entry("schema_version", JStr(row.schema_version)),
            Entry("authority_id", JStr(row.authority_id)),
            Entry("properties", DictGetDefault(row.data, "properties", JDict(<<>>)))>>)

Source_to_export_dict(row) ==
    JDict(<<Entry("id", JStr(row.id))>> \o row.data.d)

Event_to_export_dict(event) == event

\* ORDER BY id.  IdOrder lists the ids the modelled records can get in the
\* order of their text; IdRank is the position of an id in it.
IdRank(order, id) == CHOOSE i \in 1..Len(order) : order[i] = id

RECURSIVE InsertById(_, _, _)
InsertById(order, row, sorted) ==
    IF sorted = <<>> THEN <<row>>
    ELSE IF IdRank(order, row.id) < IdRank(order, Head(sorted).id)
    THEN <<row>> \o sorted
    ELSE <<Head(sorted)>> \o InsertById(order, row, Tail(sorted))

RECURSIVE OrderById(_, _)
OrderById(order, rows) ==
    IF rows = <<>> THEN <<>>
    ELSE InsertById(order, Head(rows), OrderById(order, Tail(rows)))

\* the lines export_entities writes; its return value is their number
export_entities(order, st, authority_id) ==
    LET rows == IF authority_id # <<>>
                THEN SelectSeq(st.entities, LAMBDA e : e.authority_id = authority_id)
                ELSE st.entities
        sorted == OrderById(order, rows)
    IN  [i \in 1..Len(sorted) |-> Entity_to_export_dict(sorted[i])]

export_edges(order, st, authority_id) ==
    LET rows == IF authority_id # <<>>
                THEN SelectSeq(st.edges, LAMBDA e : e.authority_id = authority_id)
                ELSE st.edges
        sorted == OrderById(order, rows)
    IN  [i \in 1..Len(sorted) |-> Edge_to_export_dict(sorted[i])]

export_sources(order, st) ==
    LET sorted == OrderById(order, st.sources)
    IN  [i \in 1..Len(sorted) |-> Source_to_export_dict(sorted[i])]

get_events_for_export(st, authority_id) ==
    IF authority_id # <<>>
    THEN SelectSeq(st.events, LAMBDA e : e.authority_id = authority_id)
    ELSE st.events

export_changelog(st, authority_id) ==
    LET events == get_events_for_export(st, authority_id)
    IN  [i \in 1..Len(events) |-> Event_to_export_dict(events[i])]

\* a create_manifest that records a digest (of no content) also for the
\* listed files that are not there
create_manifest_checksumming_all(disk, include_changelog) ==
    LET files == {"entities", "edges", "sources"}
                 \cup (IF include_changelog THEN {"changelog"} ELSE {})
    IN  [manifestOk |-> TRUE,
         authority_id |-> LocalId,
         files |-> files,
         checksums |-> [f \in files |->
                           IF f \in DOMAIN disk THEN compute_file_checksum(disk[f])
                           ELSE compute_file_checksum(<<>>)],
         disk |-> disk]

create_manifest(disk, include_changelog) ==
    LET files == {"entities", "edges", "sources"}
                 \cup (IF include_changelog THEN {"changelog"} ELSE {})
    IN  [manifestOk |-> TRUE,
         authority_id |-> LocalId,
         files |-> files,
         checksums |-> [f \in files \cap DOMAIN disk |-> compute_file_checksum(disk[f])],
         disk |-> disk]

\* the manifest and the statistics export_pkg returns: the numbers of lines
\* the export functions wrote
export_pkg_manifest(disk, include_changelog) ==
    [pkg |-> create_manifest(disk, include_changelog),
     stats |-> [entities |-> Len(disk["entities"]), edges |-> Len(disk["edges"]),
                sources |-> Len(disk["sources"]),
                changelog |-> IF include_changelog THEN Len(disk["changelog"]) ELSE 0]]

\* export_pkg: the directory it leaves and the statistics it returns
export_pkg(order, st, authority_id, include_changelog) ==
    LET auth == IF authority_id.t = "null" THEN LocalId ELSE authority_id.s
        files == {"entities", "edges", "sources"}
                 \cup (IF include_changelog THEN {"changelog"} ELSE {})
    IN  export_pkg_manifest(
            [f \in files |->
                CASE f = "entities" -> export_entities(order, st, auth)
                  [] f = "edges" -> export_edges(order, st, auth)
                  [] f = "sources" -> export_sources(order, st)
                  [] f = "changelog" -> export_changelog(st, auth)],
            include_changelog)

----------------------------------------------------------------------------
(* fkg/federation *)

\* RemoteRegistry._load_from_settings: a dict keyed by remote.id, in insertion
\* order; a later remote of the same id replaces the value in place
RECURSIVE RemoteRegistry_load(_, _)
RemoteRegistry_load(remotes, configured) ==
    IF configured = <<>> THEN remotes
    ELSE LET remote == Head(configured)
             at == {i \in 1..Len(remotes) : remotes[i].id = remote.id}
             next == IF at = {} THEN Append(remotes, remote)
                     ELSE [remotes EXCEPT ![CHOOSE i \in at : TRUE] = remote]
         IN  RemoteRegistry_load(next, Tail(configured))

\* verify_pkg(...)["valid"]
verify_pkg(pkg) == pkg.manifestOk

\* pull_remote on a session whose view is st; fetched is what the endpoint
\* gave: http_ok, and then the extracted directory pkg
pull_remote(st, remote, fetched, run, failAt) ==
    LET verify_signatures == remote.verify_signatures
        PullError == [ok |-> FALSE, err |-> "PullError", st |-> st,
                      authority_id |-> remote.id, stats |-> NoStats]
    IN
    IF ~fetched.http_ok THEN PullError
    ELSE IF verify_signatures /\ ~verify_pkg(fetched.pkg) THEN PullError
    ELSE import_pkg(st, fetched.pkg, remote.id, TRUE, TRUE, run, failAt)

\* the exceptions raised before the session is used
BeforeSession == {"PullError", "ManifestError", "ImportError"}

\* pull_remote on the one session of pull_all_remotes.  p is the call's
\* state: registry (registry.list()), idx (iterations made), sess (the view of
\* the session), poisoned (a flush failed and nobody rolled back: the session
\* refuses every statement), results.
SessionRaises(p, r) ==
    IF p.poisoned /\ r.err \notin BeforeSession
    THEN [r EXCEPT !.ok = FALSE, !.err = "PendingRollbackError",
                   !.st = p.sess, !.stats = NoStats]
    ELSE r

SessionPull(p, remote, fetched, failAt) ==
    SessionRaises(p, pull_remote(p.sess, remote, fetched, p.idx + 1, failAt))

\* a loop without the try: the exception of a pull ends it, and nothing is
\* recorded for the remote
pull_all_remotes_iteration_aborting(p, committed, r) ==
    LET remote == p.registry[p.idx + 1]
        entry == [success |-> TRUE, error |-> "", stats |-> r.stats]
    IN  IF r.ok
        THEN [pull |-> [p EXCEPT !.idx = @ + 1, !.sess = r.st,
                                 !.results = (remote.id :> entry) @@ @],
              db |-> r.st]
        ELSE [pull |-> [p EXCEPT !.idx = Len(p.registry), !.sess = r.st],
              db |-> [committed EXCEPT !.seq = r.st.seq]]

\* One iteration of the loop of pull_all_remotes: r is what pull_remote
\* returned or raised, committed the database.  The result is the call's
\* state and the database after the iteration.
pull_all_remotes_iteration(p, committed, r) ==
    LET remote == p.registry[p.idx + 1]
        flushFailed == r.err = "StorageError"
        entry == IF r.ok THEN [success |-> TRUE, error |-> "", stats |-> r.stats]
                 ELSE [success |-> FALSE, error |-> r.err, stats |-> NoStats]
        db1 == IF r.ok THEN r.st ELSE [committed EXCEPT !.seq = r.st.seq]
        sess1 == IF flushFailed THEN db1 ELSE r.st
    IN  [pull |-> [p EXCEPT !.idx = @ + 1,
                            !.sess = sess1,
                            !.poisoned = @ \/ flushFailed,
                            !.results = (remote.id :> entry) @@ @],
         db |-> db1]

----------------------------------------------------------------------------
(* The records, packages and remotes of the store specifications *)

MaxRecs == 2        \* records in a package
MaxOps == 2         \* commands nrun
MaxRemotes == 2     \* remotes in the settings

Organization == <<"organization">>
OffersService == <<"ORG_OFFERS_SERVICE">>

\* entities: eA and eA2 differ in the spelling of the name only, eX brings its
\* own id and names an authority, eBad is of a type no schema knows
eA == JDict(<<Entry("type", JStr(Organization)), Entry("name", JStr(<<"a">>))>>)
eA2 == JDict(<<Entry("type", JStr(Organization)), Entry("name", JStr(<<" ", "A">>))>>)
eX ==
    JDict(<<Entry("id", JStr(<<"x">>)), Entry("type", JStr(Organization)),
            Entry("authority_id", JStr(<<"county.b">>)), Entry("name", JStr(<<"b">>))>>)
eBad == JDict(<<Entry("type", JStr(<<"widget">>)), Entry("name", JStr(<<"a">>))>>)

\* edges: gG brings its id, gN leaves it to make_edge_id
gG ==
    JDict(<<Entry("id", JStr(<<"g">>)), Entry("type", JStr(OffersService)),
            Entry("src_id", JStr(<<"x">>)), Entry("dst_id", JStr(<<"x">>))>>)
gN ==
    JDict(<<Entry("type", JStr(OffersService)),
            Entry("src_id", JStr(<<"x">>)), Entry("dst_id", JStr(<<"x">>))>>)

s1 == JDict(<<Entry("id", JStr(<<"s1">>)), Entry("type", JStr(<<"file">>))>>)

EntityRecs == {eA, eA2, eX, eBad}
EdgeRecs == {gG, gN}
SourceRecs == {s1}

CountyA == <<"county.a">>
\* what --authority is given
ImportAuthorities == {<<"local">>, CountyA}

\* the ids the records above can get, in the order of their text
IdOrder ==
    <<make_edge_id(CountyA, OffersService, <<"x">>, <<"x">>, JDict(<<>>)),
      make_id(CountyA, Organization, eA),
      make_id(CountyA, <<"widget">>, eBad),
      <<"g">>,
      make_edge_id(LocalId, OffersService, <<"x">>, <<"x">>, JDict(<<>>)),
      make_id(LocalId, Organization, eA),
      make_id(LocalId, <<"widget">>, eBad),
      <<"s1">>,
      <<"x">>>>

SeqsUpTo(S, n) == UNION {[1..k -> S] : k \in 0..n}

Contents ==
    {c \in [entities : SeqsUpTo(EntityRecs, MaxRecs),
            edges : SeqsUpTo(EdgeRecs, MaxRecs),
            sources : SeqsUpTo(SourceRecs, MaxRecs)] :
        Len(c.entities) + Len(c.edges) + Len(c.sources) <= MaxRecs}

\* a directory as create_manifest and save_manifest leave it
HonestPkg(c) ==
    create_manifest([f \in {"entities", "edges", "sources"} |->
                        CASE f = "entities" -> c.entities
                          [] f = "edges" -> c.edges
                          [] f = "sources" -> c.sources],
                    FALSE)

HonestPkgs == {HonestPkg(c) : c \in Contents}

\* an empty directory
NoPkg ==
    [manifestOk |-> FALSE, authority_id |-> <<>>, files |-> {}, checksums |-> <<>>,
     disk |-> <<>>]

Idle ==
    [op |-> "none", ok |-> TRUE, err |-> "", authority |-> <<>>,
     authority_id |-> <<>>, verify |-> FALSE, validate |-> FALSE,
     repeat |-> FALSE, stats |-> NoStats, exported |-> NoStats]

NoPull ==
    [configured |-> <<>>, registry |-> <<>>, idx |-> 0, sess |-> EmptyStore,
     poisoned |-> FALSE, results |-> <<>>, log |-> <<>>, done |-> TRUE]

\* no session has appended an event it has not committed, and no consumer
\* has polled
NoFeed == [open |-> <<<<>>, <<>>>>, cursor |-> JNull, received |-> <<>>]

\* no pull_remote is running: no temporary directory
NoTmp == [pc |-> "idle", exists |-> FALSE, files |-> {}]

StoreIdle ==
    /\ db = EmptyStore
    /\ prev = EmptyStore
    /\ pkgdir = NoPkg
    /\ last = Idle
    /\ nrun = 0
    /\ pull = NoPull
    /\ sess = EmptyStore
    /\ tmp = NoTmp
    /\ feed = NoFeed

RemoteConfigs ==
    [id : {CountyA, <<"local">>}, verify_signatures : BOOLEAN]

----------------------------------------------------------------------------
(* Payloads handed to canonical_json and make_id, and their rewritings *)

MaxStrLen == 2
MaxDepth == 2

CanonAlphabet == {"a", "A", " "}

RECURSIVE StringsUpTo(_)
StringsUpTo(n) ==
    IF n = 0 THEN {<<>>}
    ELSE StringsUpTo(n - 1)
         \cup {Append(s, c) : s \in {x \in StringsUpTo(n - 1) : Len(x) = n - 1},
                              c \in CanonAlphabet}

Leaves ==
    {JStr(s) : s \in StringsUpTo(MaxStrLen)} \cup {JNum(1), JBool(TRUE), JNull}

RECURSIVE Values(_)
Values(d) ==
    IF d = 0 THEN Leaves
    ELSE Leaves \cup {JList(<<>>), JDict(<<>>)}
         \cup {JList(<<v>>) : v \in Values(d - 1)}
         \cup {JDict(<<Entry("a", v)>>) : v \in Values(d - 1)}
         \cup {JDict(<<Entry("b", JNum(1)), Entry("a", v)>>) : v \in Values(d - 1)}

Payloads ==
    {JDict(<<Entry(k, v)>>) : k \in {"a", "name"}, v \in Values(MaxDepth)}
    \cup {JDict(<<Entry("b", JNum(1)), Entry(k, v)>>) :
            k \in {"a", "name"}, v \in Values(MaxDepth)}

\* one whitespace character added to or removed from a run of whitespace, or
\* at either end of the string
StrEdits(s) ==
    {SubSeq(s, 1, i) \o <<" ">> \o SubSeq(s, i + 1, Len(s)) :
        i \in {j \in 0..Len(s) :
                 /\ Len(s) < MaxStrLen
                 /\ \/ j = 0
                    \/ j = Len(s)
                    \/ s[j] \in Whitespace
                    \/ s[j + 1] \in Whitespace}}
    \cup
    {SubSeq(s, 1, i - 1) \o SubSeq(s, i + 1, Len(s)) :
        i \in {j \in 1..Len(s) :
                 /\ s[j] \in Whitespace
                 /\ \/ j = 1
                    \/ j = Len(s)
                    \/ s[j - 1] \in Whitespace
                    \/ s[j + 1] \in Whitespace}}

RECURSIVE WsEdits(_)
WsEdits(v) ==
    CASE v.t = "str" -> {JStr(x) : x \in StrEdits(v.s)}
      [] v.t = "list" ->
            UNION {{JList([v.l EXCEPT ![i] = e]) : e \in WsEdits(v.l[i])} :
                    i \in 1..Len(v.l)}
      [] v.t = "dict" ->
            UNION {{JDict([v.d EXCEPT ![i] = Entry(v.d[i].k, e)]) :
                        e \in WsEdits(v.d[i].v)} : i \in 1..Len(v.d)}
      [] OTHER -> {}

RECURSIVE KeySwaps(_)
KeySwaps(v) ==
    CASE v.t = "list" ->
            UNION {{JList([v.l EXCEPT ![i] = e]) : e \in KeySwaps(v.l[i])} :
                    i \in 1..Len(v.l)}
      [] v.t = "dict" ->
            {JDict([v.d EXCEPT ![i] = v.d[i + 1], ![i + 1] = v.d[i]]) :
                i \in 1..(Len(v.d) - 1)}
            \cup
            UNION {{JDict([v.d EXCEPT ![i] = Entry(v.d[i].k, e)]) :
                        e \in KeySwaps(v.d[i].v)} : i \in 1..Len(v.d)}
      [] OTHER -> {}

GivenIds == {JStr(<<"x">>)}

----------------------------------------------------------------------------
(* fkg/cli/commands.py: the commands, each on a session of its own *)

\* a rollback that also gives back the values of the events.seq sequence
Rollback_returning_seq(committed, st) == committed

\* session.rollback(): the rows go, the values the events.seq sequence gave
\* out are not given back
Rollback(committed, st) == [committed EXCEPT !.seq = st.seq]

\* a command that commits what the session holds when import_pkg raises
pkg_import_committing(committed, path, authority, skip_verify, skip_validate, run, failAt) ==
    LET r == import_pkg(committed, path, authority, ~skip_verify, ~skip_validate,
                        run, failAt)
    IN  [db |-> r.st, out |-> r]

\* the except and the end of the session of pkg_import: r is what import_pkg
\* returned or raised
pkg_import_session(committed, r) ==
    [db |-> IF r.ok THEN r.st ELSE Rollback(committed, r.st), out |-> r]

\* fkg pkg import: the database it leaves and what import_pkg returned or raised
pkg_import(committed, path, authority, skip_verify, skip_validate, run, failAt) ==
    pkg_import_session(committed,
                       import_pkg(committed, path, authority, ~skip_verify,
                                  ~skip_validate, run, failAt))

StoreCounts(st) ==
    [entities |-> Len(st.entities), edges |-> Len(st.edges),
     sources |-> Len(st.sources)]

InitStore ==
    /\ db = EmptyStore
    /\ prev = EmptyStore
    /\ pkgdir \in HonestPkgs
    /\ last = Idle
    /\ nrun = 0
    /\ pull = NoPull
    /\ sess = EmptyStore
    /\ tmp = NoTmp
    /\ feed = NoFeed
    /\ r1 = JNull
    /\ r2 = JNull

\* somebody puts another package into the directory (once between two
\* commands: a second package would only replace the first)
StagePkg ==
    /\ nrun < MaxOps
    /\ last.op # "stage"
    /\ \E p \in HonestPkgs : p # pkgdir /\ pkgdir' = p
    /\ last' = [Idle EXCEPT !.op = "stage"]
    /\ prev' = db
    /\ UNCHANGED <<db, nrun, pull, sess, tmp, feed, canonVars>>

PkgImport(authority, skip_verify, skip_validate, failAt) ==
    /\ nrun < MaxOps
    /\ \E res \in {pkg_import(db, pkgdir, authority, skip_verify, skip_validate,
                              nrun + 1, failAt)} :
           /\ db' = res.db
           /\ last' = [op |-> "import", ok |-> res.out.ok, err |-> res.out.err,
                       authority |-> authority,
                       authority_id |-> res.out.authority_id,
                       verify |-> ~skip_verify, validate |-> ~skip_validate,
                       repeat |-> /\ last.op = "import"
                                  /\ last.ok
                                  /\ last.authority_id = res.out.authority_id,
                       stats |-> res.out.stats, exported |-> NoStats]
    /\ prev' = db
    /\ nrun' = nrun + 1
    /\ UNCHANGED <<pkgdir, pull, sess, tmp, feed, canonVars>>

\* export_pkg for an authority into the directory, then import_pkg of the
\* directory into an empty store under the same authority; stats counts the
\* rows of that store
RoundTrip(authority, validate) ==
    /\ nrun < MaxOps
    /\ \E ex \in {export_pkg(IdOrder, db, JStr(authority), TRUE)} :
       \E res \in {pkg_import(EmptyStore, ex.pkg, authority, FALSE, ~validate,
                              nrun + 1, 0)} :
           /\ pkgdir' = ex.pkg
           /\ last' = [op |-> "roundtrip", ok |-> res.out.ok, err |-> res.out.err,
                       authority |-> authority,
                       authority_id |-> res.out.authority_id,
                       verify |-> TRUE, validate |-> validate, repeat |-> FALSE,
                       stats |-> StoreCounts(res.db),
                       exported |-> [entities |-> ex.stats.entities,
                                     edges |-> ex.stats.edges,
                                     sources |-> ex.stats.sources]]
    /\ prev' = db
    /\ nrun' = nrun + 1
    /\ UNCHANGED <<db, pull, sess, tmp, feed, canonVars>>

Next ==
    \/ StagePkg
    \/ \E a \in ImportAuthorities, sv \in BOOLEAN, sd \in BOOLEAN,
          f \in 0..(MaxRecs + 1) : PkgImport(a, sv, sd, f)
    \/ \E a \in {LocalId, CountyA}, v \in BOOLEAN : RoundTrip(a, v)

Spec == InitStore /\ [][Next]_vars

----------------------------------------------------------------------------
(* A package directory somebody else can write to *)

Kinds == {"entities", "edges", "sources"}
RecsOf(kind) ==
    CASE kind = "entities" -> EntityRecs
      [] kind = "edges" -> EdgeRecs
      [] kind = "sources" -> SourceRecs

Restrict(fn, S) == [x \in S |-> fn[x]]

\* one change of the directory between two commands
Untouched == nrun < MaxOps /\ last.op \notin {"tamper", "delete", "edit"}

\* a line is appended to a file, or its last line is cut off
TamperFile ==
    /\ Untouched
    /\ \E f \in DOMAIN pkgdir.disk :
          \/ \E rec \in RecsOf(f) :
                pkgdir' = [pkgdir EXCEPT !.disk[f] = Append(@, rec)]
          \/ /\ pkgdir.disk[f] # <<>>
             /\ pkgdir' = [pkgdir EXCEPT !.disk[f] = SubSeq(@, 1, Len(@) - 1)]
    /\ last' = [Idle EXCEPT !.op = "tamper"]
    /\ prev' = db
    /\ UNCHANGED <<db, nrun, pull, sess, tmp, feed, canonVars>>

DeleteFile ==
    /\ Untouched
    /\ \E f \in DOMAIN pkgdir.disk :
          pkgdir' = [pkgdir EXCEPT !.disk = Restrict(@, DOMAIN @ \ {f})]
    /\ last' = [Idle EXCEPT !.op = "delete"]
    /\ prev' = db
    /\ UNCHANGED <<db, nrun, pull, sess, tmp, feed, canonVars>>

\* the manifest is rewritten without the checksum of a file, or is removed
EditManifest ==
    /\ Untouched
    /\ \/ \E f \in DOMAIN pkgdir.checksums :
             pkgdir' = [pkgdir EXCEPT !.checksums = Restrict(@, DOMAIN @ \ {f})]
       \/ pkgdir' = [pkgdir EXCEPT !.manifestOk = FALSE]
    /\ last' = [Idle EXCEPT !.op = "edit"]
    /\ prev' = db
    /\ UNCHANGED <<db, nrun, pull, sess, tmp, feed, canonVars>>

NextVerify ==
    \/ TamperFile
    \/ DeleteFile
    \/ EditManifest
    \/ \E sv \in BOOLEAN, sd \in BOOLEAN : PkgImport(<<"local">>, sv, sd, 0)

SpecVerify == InitStore /\ [][NextVerify]_vars

----------------------------------------------------------------------------
(* fkg/federation/pull.py: pull_all_remotes, an iteration at a time *)

\* what an endpoint can answer: an error, or the archive of a directory
PullPkgs ==
    HonestPkgs
    \cup {NoPkg}
    \cup {[HonestPkg([entities |-> <<eA>>, edges |-> <<>>, sources |-> <<>>])
              EXCEPT !.disk["entities"] = <<eX>>]}

Fetched ==
    {[http_ok |-> FALSE, pkg |-> NoPkg]} \cup {[http_ok |-> TRUE, pkg |-> p] : p \in PullPkgs}

InitPull ==
    /\ \E configured \in SeqsUpTo(RemoteConfigs, MaxRemotes) :
          pull = [configured |-> configured,
                  registry |-> RemoteRegistry_load(<<>>, configured),
                  idx |-> 0, sess |-> EmptyStore, poisoned |-> FALSE,
                  results |-> <<>>, log |-> <<>>, done |-> FALSE]
    /\ db = EmptyStore
    /\ prev = EmptyStore
    /\ pkgdir = NoPkg
    /\ last = Idle
    /\ nrun = 0
    /\ sess = EmptyStore
    /\ tmp = NoTmp
    /\ feed = NoFeed
    /\ r1 = JNull
    /\ r2 = JNull

\* log is not the program's: it keeps what each pull_remote did
PullNextRemote(fetched, failAt) ==
    /\ ~pull.done
    /\ pull.idx < Len(pull.registry)
    /\ \E remote \in {pull.registry[pull.idx + 1]} :
       \E r \in {SessionPull(pull, remote, fetched, failAt)} :
       \E res \in {pull_all_remotes_iteration(pull, db, r)} :
           /\ pull' = [res.pull EXCEPT
                          !.log = Append(pull.log, [id |-> remote.id, ok |-> r.ok,
                                                    err |-> r.err,
                                                    stats |-> r.stats])]
           /\ db' = res.db
    /\ prev' = db
    /\ UNCHANGED <<pkgdir, last, nrun, sess, tmp, feed, canonVars>>

\* the loop is over: results is returned and the caller closes the session
PullReturn ==
    /\ ~pull.done
    /\ pull.idx >= Len(pull.registry)
    /\ pull' = [pull EXCEPT !.done = TRUE, !.sess = db]
    /\ UNCHANGED <<db, prev, pkgdir, last, nrun, sess, tmp, feed, canonVars>>

NextPull ==
    \/ \E fetched \in Fetched, f \in 0..(MaxRecs + 1) : PullNextRemote(fetched, f)
    \/ PullReturn

SpecPull == InitPull /\ [][NextPull]_vars

----------------------------------------------------------------------------
(* The canonicalizer under rewritings of its input *)

InitCanon ==
    /\ r1 \in Payloads
    /\ r2 = r1
    /\ StoreIdle

EditWhitespace ==
    /\ r2' \in WsEdits(r2)
    /\ UNCHANGED <<r1, storeVars>>

ReorderKeys ==
    /\ r2' \in KeySwaps(r2)
    /\ UNCHANGED <<r1, storeVars>>

\* the caller puts an id or an authority_id on the payload, or takes it off
SetIdField ==
    /\ \E k \in {"id", "authority_id"} :
          \/ r2' = JDict(DictWithout(r2, {k}).d)
          \/ \E x \in GivenIds : r2' = JDict(DictWithout(r2, {k}).d \o <<Entry(k, x)>>)
    /\ r2' # r2
    /\ UNCHANGED <<r1, storeVars>>

NextCanon == EditWhitespace \/ ReorderKeys \/ SetIdField

SpecCanon == InitCanon /\ [][NextCanon]_vars

----------------------------------------------------------------------------
(* Import, export and round trip *)

Rows(st) ==
    [entities |-> st.entities, edges |-> st.edges, sources |-> st.sources,
     events |-> st.events]

\* the columns of the rows, without the number of the writing command
Columns(rows) ==
    [i \in 1..Len(rows) |-> [c \in (DOMAIN rows[i]) \ {"by"} |-> rows[i][c]]]

ExpectedAuthority(authority) == IF authority = <<"local">> THEN LocalId ELSE authority

\* C1: after import_pkg(authority=A) has completed, every entity and every
\* edge the import created or updated carries the resolved importing
\* authority (the instance id for "local", A otherwise), whatever the file
\* says and whatever rows of the same ids the store held.
C1_ImportOverridesAuthority ==
    (last.op = "import" /\ last.ok) =>
        /\ \A i \in 1..Len(db.entities) :
              db.entities[i].by = nrun =>
                  db.entities[i].authority_id = ExpectedAuthority(last.authority)
        /\ \A i \in 1..Len(db.edges) :
              db.edges[i].by = nrun =>
                  db.edges[i].authority_id = ExpectedAuthority(last.authority)

\* the id a record of a file is stored under
RecordId(kind, rec, authority_id) ==
    IF DictGet(rec, "id").t = "str" THEN DictGet(rec, "id").s
    ELSE CASE kind = "entities" -> make_id(authority_id, DictGet(rec, "type").s, rec)
           [] kind = "edges" ->
                make_edge_id(authority_id, DictGet(rec, "type").s,
                             DictGet(rec, "src_id").s, DictGet(rec, "dst_id").s,
                             DictGetDefault(rec, "properties", JDict(<<>>)))
           [] kind = "sources" ->
                make_id(<<"source">>,
                        DictGetDefault(rec, "type", JStr(<<"unknown">>)).s, rec)

\* C3: import_pkg is all-or-nothing.  When it succeeds, every record of the
\* sources, entities and edges files is in committed storage, written by this
\* import; when it fails, through a record's validation or a refused write at
\* any position of any file, committed storage holds the rows it held before.
C3_ImportAllOrNothing ==
    last.op = "import" =>
        IF last.ok
        THEN \A f \in (Kinds \cap pkgdir.files) \cap DOMAIN pkgdir.disk :
                \A i \in 1..Len(pkgdir.disk[f]) :
                    \E j \in 1..Len(db[f]) :
                        /\ db[f][j].id = RecordId(f, pkgdir.disk[f][i], last.authority_id)
                        /\ db[f][j].by = nrun
        ELSE Rows(db) = Rows(prev)

\* an import failed on its second record or later, after rows were flushed
C3_Witness ==
    /\ last.op = "import"
    /\ ~last.ok
    /\ last.err \in {"ValidationError", "StorageError"}
    /\ db.seq > prev.seq

\* C7: a second import of the same PKG into the same store under the same
\* authority creates no entity, edge or source: the stored ids and data are
\* those the first import left, and only update_* events, of higher seq, are
\* appended to the changelog.
C7_ReimportIdempotent ==
    (last.op = "import" /\ last.ok /\ last.repeat) =>
        /\ Columns(db.entities) = Columns(prev.entities)
        /\ Columns(db.edges) = Columns(prev.edges)
        /\ Columns(db.sources) = Columns(prev.sources)
        /\ Len(db.events) >= Len(prev.events)
        /\ SubSeq(db.events, 1, Len(prev.events)) = prev.events
        /\ \A i \in (Len(prev.events) + 1)..Len(db.events) :
              /\ db.events[i].event_type \in {"update_entity", "update_edge"}
              /\ db.events[i].seq > prev.seq
              /\ i > 1 => db.events[i].seq > db.events[i - 1].seq

\* a package of entities and edges was imported a second time
C7_Witness ==
    /\ last.op = "import"
    /\ last.ok
    /\ last.repeat
    /\ Len(db.entities) > 0
    /\ Len(db.edges) > 0
    /\ Len(db.events) > Len(prev.events)

\* C8 as stated: for every store state, export_pkg for A and then import_pkg
\* (as it is called by default, validating) of the package into an empty
\* store under A gives a store whose entity, edge and source counts are the
\* counts the export reported.
C8_RoundTripCounts ==
    (last.op = "roundtrip" /\ last.validate) => last.stats = last.exported

AllRecordsValid(pkg) ==
    /\ \A i \in 1..Len(pkg.disk["entities"]) :
          LET rec == pkg.disk["entities"][i]
          IN  validate_entity(rec, DictGet(rec, "type"),
                              DictGetDefault(rec, "schema_version",
                                             JStr(DefaultSchemaVersion)))
    /\ \A i \in 1..Len(pkg.disk["edges"]) :
          LET rec == pkg.disk["edges"][i]
          IN  validate_edge(rec, DictGetDefault(rec, "schema_version",
                                                JStr(DefaultSchemaVersion)))

\* C8, amended: the counts are equal when the import does not validate, or
\* when every exported entity and edge passes its schema.
C8_RoundTripCountsOfValidRecords ==
    (last.op = "roundtrip" /\ (~last.validate \/ AllRecordsValid(pkgdir))) =>
        /\ last.ok
        /\ last.stats = last.exported

\* a store of entities, edges and sources went through a validating round trip
C8_Witness ==
    /\ last.op = "roundtrip"
    /\ last.validate
    /\ last.ok
    /\ last.exported.entities > 0
    /\ last.exported.edges > 0

----------------------------------------------------------------------------
(* Checksums *)

Tampered(pkg) ==
    \E f \in DOMAIN pkg.checksums :
        \/ f \notin DOMAIN pkg.disk
        \/ compute_file_checksum(pkg.disk[f]) # pkg.checksums[f]

\* C2: when a file with an entry in manifest.checksums is missing or its
\* digest differs from the recorded one, import_pkg with
\* verify_checksums_flag=True fails before any write: no row is upserted, no
\* event appended, nothing committed; the store is as it was.
C2_TamperedImportWritesNothing ==
    (last.op = "import" /\ last.verify /\ Tampered(pkgdir)) =>
        /\ ~last.ok
        /\ pkgdir.manifestOk => last.err = "ImportError"
        /\ db = prev

\* a package of records, tampered with, was imported with verification into a
\* store that held rows
C2_Witness ==
    /\ last.op = "import"
    /\ last.verify
    /\ pkgdir.manifestOk
    /\ Tampered(pkgdir)
    /\ \E f \in DOMAIN pkgdir.disk : pkgdir.disk[f] # <<>>
    /\ Len(prev.entities) > 0

\* C26 as stated: when import_pkg with verify_checksums_flag=True returned,
\* every file it wrote records from has an entry in manifest.checksums, and
\* the digest of the file is the recorded one.
C26_ImportedFilesWereVerified ==
    (last.op = "import" /\ last.verify /\ last.ok) =>
        \A f \in {"entities", "edges", "sources"} :
            last.stats[f] > 0 =>
                /\ f \in DOMAIN pkgdir.checksums
                /\ compute_file_checksum(pkgdir.disk[f]) = pkgdir.checksums[f]

----------------------------------------------------------------------------
(* pull_all_remotes *)

\* the rows of a store the n-th pull wrote last
PulledBy(st, n) ==
    {<<f, i>> \in {"entities", "edges", "sources"} \X (1..(3 * MaxRecs)) :
        i <= Len(st[f]) /\ st[f][i].by = n}

\* C4: a remote's fetch-verify-import is atomic: a pull that fails at any
\* stage leaves none of that remote's records in committed storage, also when
\* pull_all_remotes, on its one session, goes on to pull another remote
\* successfully and commits.
C4_FailedPullLeavesNothing ==
    \A n \in 1..Len(pull.log) : ~pull.log[n].ok => PulledBy(db, n) = {}

\* C5: pull_all_remotes returns exactly one entry per configured remote; a
\* remote whose pull raised is recorded with success=false and the error, and
\* every other remote is still pulled and recorded with its own outcome.
C5_OneResultPerRemote ==
    (pull.done /\ pull.registry # <<>>) =>
        /\ DOMAIN pull.results = {pull.registry[i].id : i \in 1..Len(pull.registry)}
        /\ Len(pull.log) = Len(pull.registry)
        /\ \A i \in 1..Len(pull.registry) :
              LET entry == pull.results[pull.registry[i].id] IN
              /\ pull.log[i].id = pull.registry[i].id
              /\ entry.success = pull.log[i].ok
              /\ entry.error = pull.log[i].err
              /\ entry.stats = pull.log[i].stats

\* the first of two remotes failed, the second was pulled and imported
C5_Witness ==
    /\ pull.done
    /\ Len(pull.registry) = 2
    /\ ~pull.log[1].ok
    /\ pull.log[2].ok
    /\ pull.log[2].stats.entities > 0

\* C6: every import pull_remote performs stores its records under
\* authority_id = remote.id, never under the local instance identity,
\* whatever string the remote's id is.
C6_PulledUnderRemoteId ==
    \A n \in 1..Len(pull.log) :
        \A fi \in PulledBy(db, n) :
            fi[1] \in {"entities", "edges"} =>
                /\ db[fi[1]][fi[2]].authority_id = pull.log[n].id
                /\ db[fi[1]][fi[2]].authority_id # LocalId

\* the reference reading of "differ only in key order or incidental
\* whitespace": equal once every string is split on whitespace and every
\* mapping is ordered by key
RECURSIVE RefNorm(_)
RECURSIVE RefNormEntries(_, _)
RefNormEntries(d, keys) ==
    IF keys = <<>> THEN <<>>
    ELSE <<Entry(Head(keys), RefNorm(DictGet(d, Head(keys))))>>
         \o RefNormEntries(d, Tail(keys))
RefNorm(v) ==
    CASE v.t = "str" -> JStr(JoinSplit(v.s))
      [] v.t = "list" -> JList([i \in 1..Len(v.l) |-> RefNorm(v.l[i])])
      [] v.t = "dict" -> JDict(RefNormEntries(v, SortedKeys(v)))
      [] OTHER -> v

SameUpToOrderAndWhitespace(a, b) == RefNorm(a) = RefNorm(b)

\* C9: records that differ only in key order or in incidental whitespace
\* inside string values have the same canonical_json.
C9_CanonicalJsonEqual ==
    SameUpToOrderAndWhitespace(r1, r2) => canonical_json(r1) = canonical_json(r2)

Namespaces == {"local.dev", "county.a"}
EntityTypes == {"organization", "service"}

SameUpToIdOrderWhitespace(a, b) ==
    SameUpToOrderAndWhitespace(DictWithout(a, {"id", "authority_id"}),
                               DictWithout(b, {"id", "authority_id"}))

\* C10: make_id gives the same identifier to payloads that differ only in
\* id, authority_id, key order or whitespace, and a different identifier when
\* the namespace, the type or the canonical content differs.
C10_MakeIdDependsOnCanonicalForm ==
    \A n1 \in Namespaces, n2 \in Namespaces, t1 \in EntityTypes, t2 \in EntityTypes :
        /\ (n1 = n2 /\ t1 = t2 /\ SameUpToIdOrderWhitespace(r1, r2))
              => make_id(<<n1>>, <<t1>>, r1) = make_id(<<n2>>, <<t2>>, r2)
        /\ (\/ n1 # n2
            \/ t1 # t2
            \/ canonical_json(DictWithout(r1, {"id", "authority_id"}))
                 # canonical_json(DictWithout(r2, {"id", "authority_id"})))
              => make_id(<<n1>>, <<t1>>, r1) # make_id(<<n2>>, <<t2>>, r2)


----------------------------------------------------------------------------
(* fkg/storage: upserts and deletes on a caller's session *)

MaxStorageOps == 3      \* storage calls on the session

RemoveAt(rows, i) == SubSeq(rows, 1, i - 1) \o SubSeq(rows, i + 1, Len(rows))

\* EntityStorage.delete; a delete of an id that is not there returns False
\* and writes nothing
EntityStorage_delete(st, entity_id, log_event, flushFails) ==
    LET existing == SessionGet(st.entities, entity_id)
    IN  IF existing = 0 THEN Return(st)
        ELSE LET entity == st.entities[existing]
                 st1 == [st EXCEPT !.entities = RemoveAt(@, existing)]
             IN  Flush(IF log_event
                       THEN append_event(st1, "delete_entity", entity.authority_id,
                                         JDict(<<Entry("entity_id", JStr(entity_id)),
                                                 Entry("type", JStr(entity.type))>>))
                       ELSE st1,
                       flushFails)

EdgeStorage_delete(st, edge_id, log_event, flushFails) ==
    LET existing == SessionGet(st.edges, edge_id)
    IN  IF existing = 0 THEN Return(st)
        ELSE LET edge == st.edges[existing]
                 st1 == [st EXCEPT !.edges = RemoveAt(@, existing)]
             IN  Flush(IF log_event
                       THEN append_event(st1, "delete_edge", edge.authority_id,
                                         JDict(<<Entry("edge_id", JStr(edge_id)),
                                                 Entry("type", JStr(edge.type))>>))
                       ELSE st1,
                       flushFails)

\* edges that agree with gN on type, endpoints and properties (none, or the
\* empty dict) and differ in another field; gP has properties
gNote ==
    JDict(<<Entry("type", JStr(OffersService)), Entry("note", JStr(<<"a">>)),
            Entry("src_id", JStr(<<"x">>)), Entry("dst_id", JStr(<<"x">>))>>)
gEmptyProps ==
    JDict(<<Entry("type", JStr(OffersService)),
            Entry("src_id", JStr(<<"x">>)), Entry("dst_id", JStr(<<"x">>)),
            Entry("properties", JDict(<<>>))>>)
gP ==
    JDict(<<Entry("type", JStr(OffersService)),
            Entry("src_id", JStr(<<"x">>)), Entry("dst_id", JStr(<<"x">>)),
            Entry("properties", JDict(<<Entry("a", JNum(1))>>))>>)

StorageEntityRecs == {eA, eX, eBad}
StorageEdgeRecs == {gG, gN, gNote, gEmptyProps, gP}
\* the authority_id argument: None, or a remote authority
StorageAuthorities == {JNull, JStr(CountyA)}
\* a source whose type is a number
sBad == JDict(<<Entry("id", JStr(<<"s2">>)), Entry("type", JNum(1))>>)

StoragePkgs ==
    {HonestPkg([entities |-> <<eA>>, edges |-> <<gN>>, sources |-> <<>>]),
     HonestPkg([entities |-> <<eA, eBad>>, edges |-> <<>>, sources |-> <<>>]),
     HonestPkg([entities |-> <<eA>>, edges |-> <<gG>>, sources |-> <<sBad>>])}

InitStorage ==
    /\ db = EmptyStore
    /\ sess = EmptyStore
    /\ tmp = NoTmp
    /\ feed = NoFeed
    /\ prev = EmptyStore
    /\ pkgdir \in StoragePkgs
    /\ last = Idle
    /\ nrun = 0
    /\ pull = NoPull
    /\ r1 = JNull
    /\ r2 = JNull

\* what a storage call leaves in the session: its writes when it returned,
\* nothing of it when it raised before writing, and after a refused flush
\* the caller's session.rollback()
AfterCall(r) ==
    IF r.ok THEN r.st
    ELSE IF r.err = "StorageError" THEN Rollback(db, r.st)
    ELSE r.st

\* prev keeps the session as it was before the call
EntityUpsert(data, authority_id, validate, flushFails) ==
    /\ nrun < MaxStorageOps
    /\ \E r \in {EntityStorage_upsert(sess, data, JNull, authority_id,
                                      JStr(DefaultSchemaVersion), validate, TRUE,
                                      nrun + 1, flushFails)} :
           /\ sess' = AfterCall(r)
           /\ last' = [op |-> "upsert_entity", ok |-> r.ok, err |-> r.err,
                       data |-> data, authority_id |-> authority_id,
                       validate |-> validate]
    /\ prev' = sess
    /\ nrun' = nrun + 1
    /\ UNCHANGED <<db, pkgdir, pull, tmp, feed, canonVars>>

EdgeUpsert(data, authority_id, validate, flushFails) ==
    /\ nrun < MaxStorageOps
    /\ \E r \in {EdgeStorage_upsert(sess, data, authority_id,
                                    JStr(DefaultSchemaVersion), validate, TRUE,
                                    nrun + 1, flushFails)} :
           /\ sess' = AfterCall(r)
           /\ last' = [op |-> "upsert_edge", ok |-> r.ok, err |-> r.err,
                       data |-> data, authority_id |-> authority_id,
                       validate |-> validate]
    /\ prev' = sess
    /\ nrun' = nrun + 1
    /\ UNCHANGED <<db, pkgdir, pull, tmp, feed, canonVars>>

AbsentId == <<"nobody">>
RowIds(rows) == {rows[i].id : i \in 1..Len(rows)}

EntityDelete(entity_id, flushFails) ==
    /\ nrun < MaxStorageOps
    /\ \E r \in {EntityStorage_delete(sess, entity_id, TRUE, flushFails)} :
           /\ sess' = AfterCall(r)
           /\ last' = [op |-> "delete_entity", ok |-> r.ok, err |-> r.err,
                       id |-> entity_id]
    /\ prev' = sess
    /\ nrun' = nrun + 1
    /\ UNCHANGED <<db, pkgdir, pull, tmp, feed, canonVars>>

EdgeDelete(edge_id, flushFails) ==
    /\ nrun < MaxStorageOps
    /\ \E r \in {EdgeStorage_delete(sess, edge_id, TRUE, flushFails)} :
           /\ sess' = AfterCall(r)
           /\ last' = [op |-> "delete_edge", ok |-> r.ok, err |-> r.err,
                       id |-> edge_id]
    /\ prev' = sess
    /\ nrun' = nrun + 1
    /\ UNCHANGED <<db, pkgdir, pull, tmp, feed, canonVars>>

\* the number of rows the operation numbered run wrote
WrittenBy(rows, run) == Cardinality({i \in 1..Len(rows) : rows[i].by = run})

\* the rows of each kind the session held from the import when import_pkg
\* returned or raised
HeldFrom(st, run) ==
    [sources |-> WrittenBy(st.sources, run),
     entities |-> WrittenBy(st.entities, run),
     edges |-> WrittenBy(st.edges, run)]

\* import_pkg on the caller's session: it commits when it returns, and the
\* caller rolls back when it raises.  held and failAt are not the program's.
SessionImport(authority, validate, failAt) ==
    /\ nrun < MaxStorageOps
    /\ \E r \in {import_pkg(sess, pkgdir, authority, TRUE, validate, nrun + 1,
                            failAt)} :
           /\ sess' = (IF r.ok THEN r.st ELSE Rollback(db, r.st))
           /\ db' = (IF r.ok THEN r.st ELSE Rollback(db, r.st))
           /\ last' = [op |-> "import", ok |-> r.ok, err |-> r.err,
                       authority |-> authority, authority_id |-> r.authority_id,
                       verify |-> TRUE, validate |-> validate, repeat |-> FALSE,
                       stats |-> r.stats, exported |-> NoStats,
                       held |-> HeldFrom(r.st, nrun + 1), failAt |-> failAt]
    /\ prev' = sess
    /\ nrun' = nrun + 1
    /\ UNCHANGED <<pkgdir, pull, tmp, feed, canonVars>>

SessionCommit ==
    /\ sess # db
    /\ db' = sess
    /\ prev' = sess
    /\ last' = [Idle EXCEPT !.op = "commit"]
    /\ UNCHANGED <<sess, pkgdir, nrun, pull, tmp, feed, canonVars>>

SessionRollback ==
    /\ Rows(sess) # Rows(db)
    /\ sess' = Rollback(db, sess)
    /\ db' = Rollback(db, sess)
    /\ prev' = sess
    /\ last' = [Idle EXCEPT !.op = "rollback"]
    /\ UNCHANGED <<pkgdir, nrun, pull, tmp, feed, canonVars>>

NextStorage ==
    \/ \E data \in StorageEntityRecs, a \in StorageAuthorities,
          v \in BOOLEAN, f \in BOOLEAN : EntityUpsert(data, a, v, f)
    \/ \E data \in StorageEdgeRecs, a \in StorageAuthorities,
          v \in BOOLEAN, f \in BOOLEAN : EdgeUpsert(data, a, v, f)
    \/ \E id \in RowIds(sess.entities) \cup {AbsentId}, f \in BOOLEAN :
          EntityDelete(id, f)
    \/ \E id \in RowIds(sess.edges) \cup {AbsentId}, f \in BOOLEAN :
          EdgeDelete(id, f)
    \/ \E a \in ImportAuthorities, v \in BOOLEAN, f \in 0..(MaxRecs + 1) :
          SessionImport(a, v, f)
    \/ SessionCommit
    \/ SessionRollback

SpecStorage == InitStorage /\ [][NextStorage]_vars

\* the arguments EdgeStorage.upsert hands to make_edge_id
EdgeIdArgs(data, authority_id) ==
    [namespace |-> IF authority_id.t = "null" THEN LocalId ELSE authority_id.s,
     type |-> DictGet(data, "type"),
     src_id |-> DictGet(data, "src_id"),
     dst_id |-> DictGet(data, "dst_id"),
     properties |-> DictGetDefault(data, "properties", JDict(<<>>))]

\* the same for a stored edge whose id was derived
RowIdArgs(row) ==
    [namespace |-> row.authority_id,
     type |-> JStr(row.type),
     src_id |-> JStr(row.src_id),
     dst_id |-> JStr(row.dst_id),
     properties |-> DictGet(row.data, "properties")]

GivenEdgeIds == {<<"g">>}

\* C11: when EdgeStorage.upsert derives the id, an edge already stored under
\* a derived id that agrees with the record on namespace, type, src_id,
\* dst_id and properties is the row the upsert updates: no row is added, the
\* row keeps its id and now holds the record's data.
C11_DerivedEdgeIdIgnoresOtherFields ==
    (last.op = "upsert_edge" /\ last.ok /\ DictGet(last.data, "id").t = "null") =>
        \A j \in 1..Len(prev.edges) :
            (/\ prev.edges[j].id \notin GivenEdgeIds
             /\ RowIdArgs(prev.edges[j]) = EdgeIdArgs(last.data, last.authority_id))
            => /\ Len(sess.edges) = Len(prev.edges)
               /\ sess.edges[j].id = prev.edges[j].id
               /\ sess.edges[j].by = nrun
               /\ sess.edges[j].data
                    = JDict(<<Entry("properties",
                                    DictGetDefault(last.data, "properties", JDict(<<>>)))>>
                            \o DictWithout(last.data, EdgeMetaKeys).d)

\* an edge stored without the note field was upserted again with it
C11_Witness ==
    /\ last.op = "upsert_edge"
    /\ last.ok
    /\ last.data = gNote
    /\ Len(prev.edges) = 1
    /\ Len(sess.edges) = 1
    /\ DictGet(prev.edges[1].data, "note").t = "null"
    /\ DictGet(sess.edges[1].data, "note").t = "str"
    /\ sess.edges[1].id = prev.edges[1].id

\* the part of an id before its first colon (the whole id when it has none)
NamespacePrefix(id) ==
    LET colons == {i \in 1..Len(id) : id[i] = ":"}
    IN  IF colons = {} THEN id
        ELSE SubSeq(id, 1, (CHOOSE i \in colons : \A k \in colons : i <= k) - 1)

\* C17: every entity and edge of the session has an id whose namespace
\* prefix, the part before the first colon, is its authority_id.
C17_IdPrefixIsAuthority ==
    /\ \A i \in 1..Len(sess.entities) :
          NamespacePrefix(sess.entities[i].id) = sess.entities[i].authority_id
    /\ \A i \in 1..Len(sess.edges) :
          NamespacePrefix(sess.edges[i].id) = sess.edges[i].authority_id

IsPrefixOf(s, t) == Len(s) <= Len(t) /\ SubSeq(t, 1, Len(s)) = s

\* C18: in every step of the session (upsert, delete, import, failed or not,
\* commit, rollback) each event that is appended gets a seq above every seq
\* given out before, the sequence never goes back, the log is in strictly
\* increasing seq, and the events written stay as they are: the committed
\* events remain a prefix of the log, and the session's log only grows, except
\* that a rollback discards the events of the transaction that did not commit.
C18_SeqIncreasingEventsImmutable ==
    [][/\ sess'.seq >= sess.seq
       /\ IsPrefixOf(db.events, db'.events)
       /\ IsPrefixOf(db'.events, sess'.events)
       /\ \/ IsPrefixOf(sess.events, sess'.events)
          \/ sess'.events = db.events
       /\ \A i \in 1..Len(sess'.events) :
             /\ sess'.events[i].seq <= sess'.seq
             /\ i > 1 => sess'.events[i].seq > sess'.events[i - 1].seq
             /\ (i > Len(sess.events) \/ sess'.events[i] # sess.events[i])
                   => sess'.events[i].seq > sess.seq]_vars

\* a failed call used values of the sequence, and the delete that followed
\* got a seq above them
C18_Witness ==
    /\ last.op = "delete_entity"
    /\ last.ok
    /\ sess.events # <<>>
    /\ sess.events[Len(sess.events)].event_type = "delete_entity"
    /\ sess.events[Len(sess.events)].seq > Len(sess.events)

\* validate_source returns (TRUE) or raises ValidationError (FALSE): the
\* source schema asks for a string id and a string type
validate_source(data, version) ==
    /\ version.t = "str"
    /\ version.s \in SchemaVersions
    /\ DictGet(data, "id").t = "str"
    /\ DictGet(data, "type").t = "str"

RecordVersion(data) == DictGetDefault(data, "schema_version", JStr(DefaultSchemaVersion))

\* C21: an import_pkg with validate=True that returned wrote every record of
\* the files it names, so every record of its sources, entities and edges
\* files passes the structural validator of its kind.
C21_ImportedRecordsAreValid ==
    (last.op = "import" /\ last.ok /\ last.validate) =>
        /\ HasFile(pkgdir, "sources") =>
              \A i \in 1..Len(pkgdir.disk["sources"]) :
                 validate_source(pkgdir.disk["sources"][i],
                                 RecordVersion(pkgdir.disk["sources"][i]))
        /\ HasFile(pkgdir, "entities") =>
              \A i \in 1..Len(pkgdir.disk["entities"]) :
                 validate_entity(pkgdir.disk["entities"][i],
                                 DictGet(pkgdir.disk["entities"][i], "type"),
                                 RecordVersion(pkgdir.disk["entities"][i]))
        /\ HasFile(pkgdir, "edges") =>
              \A i \in 1..Len(pkgdir.disk["edges"]) :
                 validate_edge(pkgdir.disk["edges"][i],
                               RecordVersion(pkgdir.disk["edges"][i]))

FileLen(pkg, f) == IF HasFile(pkg, f) THEN Len(pkg.disk[f]) ELSE 0

\* C23: whenever import_pkg stops, the session holds rows of the entities
\* file only when it holds all of the sources file, and rows of the edges
\* file only when it holds all of the entities and sources files (the
\* records of a file have different ids here).  When no flush is refused and
\* the import does not validate, the import returns and holds every edge of
\* the file, whether or not its src_id and dst_id name a stored entity.
C23_SourcesEntitiesEdges ==
    last.op = "import" =>
        /\ last.held.entities > 0 => last.held.sources = FileLen(pkgdir, "sources")
        /\ last.held.edges > 0 =>
              /\ last.held.sources = FileLen(pkgdir, "sources")
              /\ last.held.entities = FileLen(pkgdir, "entities")
        /\ (last.failAt = 0 /\ ~last.validate) =>
              /\ last.ok
              /\ last.held.edges = FileLen(pkgdir, "edges")

\* a validating import stored an edge whose endpoints name no stored entity
C23_Witness ==
    /\ last.op = "import"
    /\ last.ok
    /\ last.validate
    /\ \E i \in 1..Len(sess.edges) :
          /\ sess.edges[i].by = nrun
          /\ sess.edges[i].src_id \notin RowIds(sess.entities)
          /\ sess.edges[i].dst_id \notin RowIds(sess.entities)

\* the row as the columns an update may not touch
Kept(row) == [c \in (DOMAIN row) \ {"data", "schema_version", "by"} |-> row[c]]

\* what an upsert that returned did to the rows of its table (old before,
\* new after): e is the event it appended, id_key the key of the id in the
\* event's payload, data the data the row gets
UpsertedAsLogged(old, new, e, id_key, creates, updates, data, run) ==
    LET id == DictGet(e.payload, id_key).s
    IN  IF id \notin RowIds(old)
        THEN /\ e.event_type = creates
             /\ Len(new) = Len(old) + 1
             /\ SubSeq(new, 1, Len(old)) = old
             /\ new[Len(new)].id = id
             /\ new[Len(new)].data = data
        ELSE /\ e.event_type = updates
             /\ Len(new) = Len(old)
             /\ \A j \in 1..Len(old) :
                   IF old[j].id = id
                   THEN /\ Kept(new[j]) = Kept(old[j])
                        /\ new[j].data = data
                        /\ new[j].schema_version = DefaultSchemaVersion
                        /\ new[j].by = run
                   ELSE new[j] = old[j]

\* C24: an entity or edge upsert (log_event on) that returned appended one
\* event.  When no row had the id before, the event is create_* and the table
\* has one row more, the new one; otherwise the event is update_*, the table
\* has the rows it had, and the row with the id has the new data and
\* schema_version and every other column, id and authority_id among them, as
\* before.  The rows of the other tables are as they were.
C24_UpsertCreatesOrUpdates ==
    /\ (last.op = "upsert_entity" /\ last.ok) =>
          /\ Len(sess.events) = Len(prev.events) + 1
          /\ SubSeq(sess.events, 1, Len(prev.events)) = prev.events
          /\ sess.edges = prev.edges
          /\ sess.sources = prev.sources
          /\ UpsertedAsLogged(prev.entities, sess.entities,
                              sess.events[Len(sess.events)], "entity_id",
                              "create_entity", "update_entity",
                              DictWithout(last.data, EntityMetaKeys), nrun)
    /\ (last.op = "upsert_edge" /\ last.ok) =>
          /\ Len(sess.events) = Len(prev.events) + 1
          /\ SubSeq(sess.events, 1, Len(prev.events)) = prev.events
          /\ sess.entities = prev.entities
          /\ sess.sources = prev.sources
          /\ UpsertedAsLogged(prev.edges, sess.edges,
                              sess.events[Len(sess.events)], "edge_id",
                              "create_edge", "update_edge",
                              JDict(<<Entry("properties",
                                            DictGetDefault(last.data, "properties",
                                                           JDict(<<>>)))>>
                                    \o DictWithout(last.data, EdgeMetaKeys).d), nrun)

\* an upsert under another authority updated a row, which kept its authority
C24_Witness ==
    /\ last.op = "upsert_entity"
    /\ last.ok
    /\ sess.events[Len(sess.events)].event_type = "update_entity"
    /\ \E j \in 1..Len(sess.entities) :
          /\ sess.entities[j].by = nrun
          /\ sess.entities[j].authority_id # sess.events[Len(sess.events)].authority_id

----------------------------------------------------------------------------
(* fkg/pkg/import_.py: validate_pkg, and fkg pkg validate *)

\* a validate_pkg for which a listed file that is missing is an error
validate_pkg_missing_is_error(pkg) ==
    IF ~pkg.manifestOk
    THEN [valid |-> FALSE, errors |-> <<[file |-> "manifest.json", what |-> "manifest"]>>,
          warnings |-> <<>>, manifest |-> <<>>]
    ELSE LET missing == SelectSeq(FileOrder,
                                  LAMBDA f : f \in pkg.files /\ f \notin DOMAIN pkg.disk)
             errors == verify_checksums(pkg)
                       \o [i \in 1..Len(missing) |->
                              [file |-> missing[i], what |-> "listed file missing"]]
         IN  [valid |-> errors = <<>>, errors |-> errors,
              warnings |-> <<>>,
              manifest |-> <<[files |-> pkg.files, checksums |-> pkg.checksums]>>]

\* a validate_pkg that reports the mismatches and leaves valid as it was
validate_pkg_keeping_valid(pkg) ==
    IF ~pkg.manifestOk
    THEN [valid |-> FALSE, errors |-> <<[file |-> "manifest.json", what |-> "manifest"]>>,
          warnings |-> <<>>, manifest |-> <<>>]
    ELSE LET missing == SelectSeq(FileOrder,
                                  LAMBDA f : f \in pkg.files /\ f \notin DOMAIN pkg.disk)
         IN  [valid |-> TRUE, errors |-> verify_checksums(pkg),
              warnings |-> [i \in 1..Len(missing) |->
                               [file |-> missing[i], what |-> "listed file missing"]],
              manifest |-> <<[files |-> pkg.files, checksums |-> pkg.checksums]>>]

\* validate_pkg: the results dict.  errors and warnings are sequences of
\* (file, what) as verify_checksums gives them; the error of a manifest that
\* does not load names manifest.json; manifest is <<>> for None.
validate_pkg(pkg) ==
    IF ~pkg.manifestOk
    THEN [valid |-> FALSE, errors |-> <<[file |-> "manifest.json", what |-> "manifest"]>>,
          warnings |-> <<>>, manifest |-> <<>>]
    ELSE LET mismatches == verify_checksums(pkg)
             missing == SelectSeq(FileOrder,
                                  LAMBDA f : f \in pkg.files /\ f \notin DOMAIN pkg.disk)
         IN  [valid |-> mismatches = <<>>, errors |-> mismatches,
              warnings |-> [i \in 1..Len(missing) |->
                               [file |-> missing[i], what |-> "listed file missing"]],
              manifest |-> <<[files |-> pkg.files, checksums |-> pkg.checksums]>>]

InitValidate ==
    /\ db = EmptyStore
    /\ sess = EmptyStore
    /\ tmp = NoTmp
    /\ feed = NoFeed
    /\ prev = EmptyStore
    /\ pkgdir = NoPkg
    /\ last = Idle
    /\ nrun = 0
    /\ pull = NoPull
    /\ r1 = JNull
    /\ r2 = JNull

\* Somebody fills an empty directory: data files of some of the three kinds,
\* then create_manifest and save_manifest, with or without the changelog
\* named in the manifest.
WritePkg ==
    /\ pkgdir = NoPkg
    /\ \E c \in Contents, present \in SUBSET Kinds, include_changelog \in BOOLEAN :
          pkgdir' = create_manifest(
                        [f \in present |->
                            CASE f = "entities" -> c.entities
                              [] f = "edges" -> c.edges
                              [] f = "sources" -> c.sources],
                        include_changelog)
    /\ last' = [Idle EXCEPT !.op = "manifest"]
    /\ UNCHANGED <<db, prev, nrun, pull, sess, tmp, feed, canonVars>>

\* fkg pkg validate: what validate_pkg returned and the exit code; after is
\* what was done to the directory last before the command
PkgValidate ==
    /\ nrun < MaxOps
    /\ \E results \in {validate_pkg(pkgdir)} :
          last' = [op |-> "validate", ok |-> results.valid,
                   valid |-> results.valid, errors |-> results.errors,
                   warnings |-> results.warnings, manifest |-> results.manifest,
                   exit |-> IF results.valid THEN 0 ELSE 1,
                   after |-> last.op]
    /\ nrun' = nrun + 1
    /\ UNCHANGED <<db, prev, pkgdir, pull, sess, tmp, feed, canonVars>>

NextValidate ==
    \/ WritePkg
    \/ TamperFile
    \/ DeleteFile
    \/ EditManifest
    \/ PkgValidate

SpecValidate == InitValidate /\ [][NextValidate]_vars

\* the entries of manifest.checksums whose file is missing or has another digest
BadEntries(pkg) ==
    {f \in DOMAIN pkg.checksums :
        \/ f \notin DOMAIN pkg.disk
        \/ compute_file_checksum(pkg.disk[f]) # pkg.checksums[f]}

Descriptors(list, f) == {i \in 1..Len(list) : list[i].file = f}

\* C13: verify_checksums (its list is the errors of validate_pkg for a
\* manifest that loads) holds exactly one descriptor for each entry of
\* manifest.checksums whose file is missing ("file missing") or has another
\* digest ("checksum mismatch"), and none for any other file; when one file
\* of a freshly written package was altered, the list is one descriptor, of
\* that file.
C13_OneDescriptorPerBadEntry ==
    (last.op = "validate" /\ last.manifest # <<>>) =>
        /\ \A i \in 1..Len(last.errors) : last.errors[i].file \in BadEntries(pkgdir)
        /\ \A f \in BadEntries(pkgdir) :
              /\ Cardinality(Descriptors(last.errors, f)) = 1
              /\ \A i \in Descriptors(last.errors, f) :
                    last.errors[i].what = (IF f \in DOMAIN pkgdir.disk
                                           THEN "checksum mismatch"
                                           ELSE "file missing")
        /\ (last.after = "tamper" /\ nrun = 1) =>
              /\ Len(last.errors) = 1
              /\ Cardinality(BadEntries(pkgdir)) = 1

\* two entries are wrong: a file was altered and another deleted
C13_Witness ==
    /\ last.op = "validate"
    /\ last.manifest # <<>>
    /\ Len(last.errors) = 2
    /\ \E i \in 1..2 : last.errors[i].what = "file missing"
    /\ \E i \in 1..2 : last.errors[i].what = "checksum mismatch"

\* C14: for a manifest that loads, every file named in manifest.files that
\* is not on disk gets one warning, and the missing file by itself is no
\* error: no error names it unless it has an entry in manifest.checksums,
\* and when no entry of manifest.checksums is wrong the package is valid
\* without errors.
C14_MissingListedFileIsWarning ==
    (last.op = "validate" /\ last.manifest # <<>>) =>
        /\ \A f \in pkgdir.files \ DOMAIN pkgdir.disk :
              /\ Cardinality(Descriptors(last.warnings, f)) = 1
              /\ f \notin DOMAIN pkgdir.checksums
                    => Descriptors(last.errors, f) = {}
        /\ BadEntries(pkgdir) = {} => (last.valid /\ last.errors = <<>>)

\* a package with a listed file missing was found valid, with a warning
C14_Witness ==
    /\ last.op = "validate"
    /\ last.manifest # <<>>
    /\ "entities" \in pkgdir.files \ DOMAIN pkgdir.disk
    /\ last.valid
    /\ last.errors = <<>>
    /\ Descriptors(last.warnings, "entities") # {}

C16_FreshManifestVerifies ==
    /\ last.op = "manifest" =>
          /\ verify_checksums(pkgdir) = <<>>
          /\ validate_pkg(pkgdir).valid
          /\ validate_pkg(pkgdir).errors = <<>>
    /\ (last.op = "validate" /\ last.after = "manifest") =>
          /\ last.valid
          /\ last.errors = <<>>
          /\ last.exit = 0

\* a directory with records in one file and two files absent was validated
C16_Witness ==
    /\ last.op = "validate"
    /\ last.after = "manifest"
    /\ DOMAIN pkgdir.disk = {"entities"}
    /\ Len(pkgdir.disk["entities"]) = MaxRecs
    /\ last.valid

----------------------------------------------------------------------------
(* make_edge_id under a change of the endpoints *)

\* endpoint ids: the non-empty strings of the canonicalizer's alphabet
EndpointIds == StringsUpTo(MaxStrLen) \ {<<>>}

EdgeOf(src_id, dst_id) ==
    JDict(<<Entry("type", JStr(OffersService)), Entry("src_id", JStr(src_id)),
            Entry("dst_id", JStr(dst_id))>>)

\* r1 and r2 are two edges of one type, without properties
InitEdgeId ==
    /\ \E s \in EndpointIds, d \in EndpointIds : r1 = EdgeOf(s, d)
    /\ r2 = r1
    /\ StoreIdle

ChangeSrc ==
    /\ \E s \in EndpointIds : r2' = EdgeOf(s, DictGet(r2, "dst_id").s)
    /\ r2' # r2
    /\ UNCHANGED <<r1, storeVars>>

ChangeDst ==
    /\ \E d \in EndpointIds : r2' = EdgeOf(DictGet(r2, "src_id").s, d)
    /\ r2' # r2
    /\ UNCHANGED <<r1, storeVars>>

NextEdgeId == ChangeSrc \/ ChangeDst

SpecEdgeId == InitEdgeId /\ [][NextEdgeId]_vars

EdgeIdOf(namespace, edge) ==
    make_edge_id(namespace, DictGet(edge, "type").s, DictGet(edge, "src_id").s,
                 DictGet(edge, "dst_id").s, JDict(<<>>))

\* C12: two edges of the same namespace, type and properties whose src_id or
\* dst_id are not the same string get different identifiers from
\* make_edge_id (the digest of a text standing for the text).
C12_DifferentEndpointsDifferentIds ==
    (\/ DictGet(r1, "src_id") # DictGet(r2, "src_id")
     \/ DictGet(r1, "dst_id") # DictGet(r2, "dst_id"))
    => EdgeIdOf(LocalId, r1) # EdgeIdOf(LocalId, r2)

----------------------------------------------------------------------------
(* normalize_name on names that end in a legal suffix *)

\* the listed legal suffixes
LegalSuffixes ==
    {<<"i", "n", "c">>, <<"l", "l", "c">>, <<"c", "o", "r", "p">>,
     <<"c", "o", "r", "p", "o", "r", "a", "t", "i", "o", "n">>,
     <<"i", "n", "c", "o", "r", "p", "o", "r", "a", "t", "e", "d">>,
     <<"l", "t", "d">>, <<"l", "i", "m", "i", "t", "e", "d">>,
     <<"c", "o">>, <<"c", "o", "m", "p", "a", "n", "y">>}

\* base names: none of them ends in a suffix
BaseNames == {<<"a">>, <<"a", " ", "b">>, <<"B", "a">>}

Upper(c) ==
    IF \E u \in DOMAIN UpperToLower : UpperToLower[u] = c
    THEN CHOOSE u \in DOMAIN UpperToLower : UpperToLower[u] = c
    ELSE c

\* the letter cases a suffix is written in: inc, INC, Inc
LetterCases == {"lower", "upper", "capitalized"}
InCase(w, style) ==
    CASE style = "lower" -> w
      [] style = "upper" -> [i \in 1..Len(w) |-> Upper(w[i])]
      [] style = "capitalized" -> [i \in 1..Len(w) |-> IF i = 1 THEN Upper(w[i]) ELSE w[i]]

NameRecord(field, name) == JDict(<<Entry(field, JStr(name))>>)
FieldOf(rec) == rec.d[1].k
NameOf(rec) == rec.d[1].v.s

\* r1 holds a base name in one of the name fields, r2 the same record
InitSuffix ==
    /\ \E field \in NameFields, base \in BaseNames : r1 = NameRecord(field, base)
    /\ r2 = r1
    /\ StoreIdle

\* the name of r2 gets one legal suffix
AddSuffix ==
    /\ r2 = r1
    /\ \E w \in LegalSuffixes, style \in LetterCases :
          r2' = NameRecord(FieldOf(r1), NameOf(r1) \o <<" ">> \o InCase(w, style))
    /\ UNCHANGED <<r1, storeVars>>

\* the suffix of r2 gets its trailing period
AddPeriod ==
    /\ r2 # r1
    /\ NameOf(r2)[Len(NameOf(r2))] # "."
    /\ r2' = NameRecord(FieldOf(r2), NameOf(r2) \o <<".">>)
    /\ UNCHANGED <<r1, storeVars>>

NextSuffix == AddSuffix \/ AddPeriod

SpecSuffix == InitSuffix /\ [][NextSuffix]_vars

\* C19: a name field holding a base name and one listed legal suffix, with
\* or without a trailing period and in any letter case, is canonicalized
\* (normalize_names=true) to the value the base name alone gets.
C19_SuffixStripped ==
    r2 # r1 => canonicalize(r2, TRUE) = canonicalize(r1, TRUE)

----------------------------------------------------------------------------
(* fkg/federation/pull.py: the temporary directory of pull_remote *)

MaxPulls == 2       \* calls of pull_remote

\* a with-block that removes the directory only when its body returns
TemporaryDirectory_exit_on_return_only(t, pc) ==
    IF pc = "returned" THEN [pc |-> pc, exists |-> FALSE, files |-> {}]
    ELSE [t EXCEPT !.pc = pc]

\* the end of "with tempfile.TemporaryDirectory() as tmpdir": the directory
\* and what is in it are removed, whether the body returned or raised
TemporaryDirectory_exit(t, pc) == [pc |-> pc, exists |-> FALSE, files |-> {}]

InitTmp ==
    /\ db = EmptyStore
    /\ sess = EmptyStore
    /\ prev = EmptyStore
    /\ pkgdir = NoPkg
    /\ last = Idle
    /\ nrun = 0
    /\ pull = NoPull
    /\ tmp = NoTmp
    /\ feed = NoFeed
    /\ r1 = JNull
    /\ r2 = JNull

\* what a statement of pull_remote that raised leaves: the exception in
\* last, and of the directory as it was (dir) what the with-block leaves
Raised(dir, err) ==
    /\ \E t \in {TemporaryDirectory_exit(dir, "raised")} :
          /\ tmp' = t
          /\ pkgdir' = (IF t.exists THEN pkgdir ELSE NoPkg)
    /\ last' = [last EXCEPT !.ok = FALSE, !.err = err,
                            !.verified = IF tmp.pc = "verify" THEN "invalid" ELSE @]
    /\ prev' = sess
    /\ UNCHANGED <<db, sess, nrun, pull, feed, canonVars>>

\* a pull_remote that looks at the remote's policy only
resolve_verify_signatures_policy_only(remote, verify_signatures) ==
    remote.verify_signatures

\* "if verify_signatures is None: verify_signatures = remote.trust.verify_signatures"
resolve_verify_signatures(remote, verify_signatures) ==
    IF verify_signatures.t = "null" THEN remote.verify_signatures
    ELSE verify_signatures.b

\* RemoteTrust.allow_entity_types: the default, and a list of one type
AllowLists == {{<<"organization">>, <<"service">>, <<"location">>}, {<<"service">>}}

\* the remotes of the settings with their trust
TrustedRemotes ==
    [id : {CountyA, <<"local">>}, verify_signatures : BOOLEAN,
     allow_entity_types : AllowLists]

\* RemoteRegistry.is_entity_type_allowed, for a remote of the registry
is_entity_type_allowed(remote, entity_type) ==
    entity_type \in remote.allow_entity_types

\* the verify_signatures argument: None, True or False
VerifyOverrides == {JNull, JBool(TRUE), JBool(FALSE)}

\* pull_remote is called: tempfile.TemporaryDirectory() makes the directory.
\* last keeps the arguments, verify (what the call settled on), and what the
\* call has done so far: verified ("no", "valid", "invalid") and imported.
PullEnter(remote, verify_signatures) ==
    /\ tmp.pc \in {"idle", "returned", "raised"}
    /\ nrun < MaxPulls
    /\ tmp' = [pc |-> "fetch", exists |-> TRUE, files |-> {}]
    /\ last' = [op |-> "pull", ok |-> TRUE, err |-> "", remote |-> remote,
                override |-> verify_signatures,
                verify |-> resolve_verify_signatures(remote, verify_signatures),
                verified |-> "no", imported |-> FALSE, stats |-> NoStats]
    /\ nrun' = nrun + 1
    /\ prev' = sess
    /\ UNCHANGED <<db, sess, pkgdir, pull, feed, canonVars>>

\* fetch_remote_pkg: the request fails (httpx.HTTPError, raised as PullError)
FetchFails ==
    /\ tmp.pc = "fetch"
    /\ Raised(tmp, "PullError")

\* fetch_remote_pkg: pkg.zip is written and pkg made, and the archive cannot
\* be read or extracted to the end
FetchBadArchive ==
    /\ tmp.pc = "fetch"
    /\ Raised([tmp EXCEPT !.files = {"pkg.zip", "pkg"}], "BadZipFile")

\* fetch_remote_pkg returns the extracted directory
FetchOk(pkg) ==
    /\ tmp.pc = "fetch"
    /\ tmp' = [pc |-> "verify", exists |-> TRUE, files |-> {"pkg.zip", "pkg"}]
    /\ pkgdir' = pkg
    /\ prev' = sess
    /\ UNCHANGED <<db, sess, last, nrun, pull, feed, canonVars>>

\* if verify_signatures: verify_pkg
VerifySignature ==
    /\ tmp.pc = "verify"
    /\ IF last.verify /\ ~verify_pkg(pkgdir)
       THEN Raised(tmp, "PullError")
       ELSE /\ tmp' = [tmp EXCEPT !.pc = "import"]
            /\ last' = [last EXCEPT !.verified = IF last.verify THEN "valid" ELSE "no"]
            /\ prev' = sess
            /\ UNCHANGED <<db, sess, pkgdir, nrun, pull, feed, canonVars>>

\* import_pkg with the remote's authority, and the end of the with-block
ImportFetched(failAt) ==
    /\ tmp.pc = "import"
    /\ \E r \in {import_pkg(sess, pkgdir, last.remote.id, TRUE, TRUE, nrun, failAt)} :
       \E t \in {TemporaryDirectory_exit(tmp, IF r.ok THEN "returned" ELSE "raised")} :
          /\ tmp' = t
          /\ pkgdir' = (IF t.exists THEN pkgdir ELSE NoPkg)
          /\ sess' = (IF r.ok THEN r.st ELSE Rollback(db, r.st))
          /\ db' = (IF r.ok THEN r.st ELSE Rollback(db, r.st))
          /\ last' = [last EXCEPT !.ok = r.ok, !.err = r.err, !.stats = r.stats,
                                  !.imported = TRUE]
    /\ prev' = sess
    /\ UNCHANGED <<nrun, pull, feed, canonVars>>

NextTmp ==
    \/ \E remote \in TrustedRemotes, v \in VerifyOverrides : PullEnter(remote, v)
    \/ FetchFails
    \/ FetchBadArchive
    \/ \E pkg \in PullPkgs : FetchOk(pkg)
    \/ VerifySignature
    \/ \E f \in 0..(MaxRecs + 1) : ImportFetched(f)

SpecTmp == InitTmp /\ [][NextTmp]_vars

\* C20: when pull_remote has returned or raised, whatever the exit (fetch
\* failure, bad archive, invalid signature, checksum mismatch, validation
\* failure, success), its temporary directory with the zip and the extracted
\* package is gone; it exists only while the call is running.
C20_TmpdirGoneAfterPull ==
    /\ tmp.pc \in {"returned", "raised"} =>
          /\ ~tmp.exists
          /\ tmp.files = {}
          /\ pkgdir = NoPkg
    /\ tmp.exists => tmp.pc \in {"fetch", "verify", "import"}

\* an import that failed after the package was extracted and partly imported
C20_Witness ==
    /\ tmp.pc = "raised"
    /\ last.op = "pull"
    /\ last.err \notin {"PullError", "BadZipFile", ""}
    /\ sess.seq > 0

\* C22: signature verification is requested by the verify_signatures
\* argument or, when that is None, by the remote's policy.  When it is
\* requested, import_pkg is invoked only after verify_pkg reported valid; when
\* verify_pkg reports invalid the call raises PullError, import_pkg has not
\* been invoked and the session holds what it held before.
C22_VerifyBeforeImport ==
    last.op = "pull" =>
        LET requested == IF last.override.t = "null"
                         THEN last.remote.verify_signatures
                         ELSE last.override.b
        IN  /\ (requested /\ (last.imported \/ tmp.pc = "import"))
                  => last.verified = "valid"
            /\ last.verified = "invalid" =>
                  /\ requested
                  /\ ~last.imported
                  /\ tmp.pc = "raised"
                  /\ last.err = "PullError"
                  /\ sess = prev
                  /\ Rows(db) = Rows(sess)

\* the override asked for the verification the policy does not ask for, and
\* the package did not pass
C22_Witness ==
    /\ last.op = "pull"
    /\ last.override = JBool(TRUE)
    /\ ~last.remote.verify_signatures
    /\ last.verified = "invalid"
    /\ tmp.pc = "raised"

\* C27 as stated: when pull_remote has returned, every entity it stored from
\* the remote's package is of a type in the remote's allow_entity_types.
C27_PulledTypesAreAllowed ==
    (last.op = "pull" /\ last.imported /\ last.ok) =>
        \A i \in 1..Len(sess.entities) :
            sess.entities[i].by = nrun =>
                is_entity_type_allowed(last.remote, sess.entities[i].type)

----------------------------------------------------------------------------
(* export_pkg on a store that holds records of several authorities *)

MaxExportOps == 4   \* commands nrun in the export specification

\* an edge that brings its id and a field next to properties
gExt ==
    JDict(<<Entry("id", JStr(<<"g">>)), Entry("type", JStr(OffersService)),
            Entry("src_id", JStr(<<"x">>)), Entry("dst_id", JStr(<<"x">>)),
            Entry("note", JStr(<<"a">>))>>)

ExportPkgs ==
    {HonestPkg([entities |-> <<eX>>, edges |-> <<gExt>>, sources |-> <<s1>>]),
     HonestPkg([entities |-> <<eA>>, edges |-> <<gN>>, sources |-> <<>>])}

\* the authority_id argument of export_pkg: None, an authority, the empty string
ExportAuthorities == {JNull, JStr(LocalId), JStr(CountyA), JStr(<<>>)}

ExportIdle ==
    [op |-> "none", ok |-> TRUE, authority_id |-> <<>>, reimport |-> FALSE,
     stats |-> NoStats]

InitExport ==
    /\ db = EmptyStore
    /\ prev = EmptyStore
    /\ pkgdir \in ExportPkgs
    /\ last = ExportIdle
    /\ nrun = 0
    /\ pull = NoPull
    /\ sess = EmptyStore
    /\ tmp = NoTmp
    /\ feed = NoFeed
    /\ r1 = JNull
    /\ r2 = JNull

\* somebody puts another package into the directory
ExportStage ==
    /\ nrun < MaxExportOps
    /\ last.op # "stage"
    /\ \E p \in ExportPkgs : p # pkgdir /\ pkgdir' = p
    /\ last' = [ExportIdle EXCEPT !.op = "stage"]
    /\ prev' = db
    /\ UNCHANGED <<db, nrun, pull, sess, tmp, feed, canonVars>>

\* fkg pkg import of the directory; reimport: the directory is what export_pkg
\* just wrote from this store for the authority of the import
ExportImport(authority, validate) ==
    /\ nrun < MaxExportOps
    /\ \E res \in {pkg_import(db, pkgdir, authority, FALSE, ~validate, nrun + 1, 0)} :
           /\ db' = res.db
           /\ last' = [op |-> "import", ok |-> res.out.ok,
                       authority_id |-> res.out.authority_id,
                       reimport |-> /\ last.op = "export"
                                    /\ last.authority_id = res.out.authority_id,
                       stats |-> res.out.stats]
    /\ prev' = db
    /\ nrun' = nrun + 1
    /\ UNCHANGED <<pkgdir, pull, sess, tmp, feed, canonVars>>

\* export_pkg(session, output_dir, authority_id, include_changelog);
\* last.authority_id is the effective authority
PkgExport(authority_id, include_changelog) ==
    /\ nrun < MaxExportOps
    /\ \E ex \in {export_pkg(IdOrder, db, authority_id, include_changelog)} :
           /\ pkgdir' = ex.pkg
           /\ last' = [op |-> "export", ok |-> TRUE,
                       authority_id |-> IF authority_id.t = "null" THEN LocalId
                                        ELSE authority_id.s,
                       reimport |-> FALSE,
                       stats |-> [entities |-> ex.stats.entities,
                                  edges |-> ex.stats.edges,
                                  sources |-> ex.stats.sources]]
    /\ prev' = db
    /\ nrun' = nrun + 1
    /\ UNCHANGED <<db, pull, sess, tmp, feed, canonVars>>

NextExport ==
    \/ ExportStage
    \/ \E a \in ImportAuthorities, v \in BOOLEAN : ExportImport(a, v)
    \/ \E a \in ExportAuthorities, c \in BOOLEAN : PkgExport(a, c)

SpecExport == InitExport /\ [][NextExport]_vars

\* the lines of entities.jsonl and edges.jsonl in the directory
DataLines(pkg) == pkg.disk["entities"] \o pkg.disk["edges"]

\* C25 as stated: after export_pkg, every line of entities.jsonl and
\* edges.jsonl is a record of the effective authority (the argument, or the
\* local instance id when the argument is None), and every entity and edge of
\* that authority in the store has its line.
C25_ExportIsOneAuthority ==
    last.op = "export" =>
        /\ \A i \in 1..Len(DataLines(pkgdir)) :
              DictGet(DataLines(pkgdir)[i], "authority_id") = JStr(last.authority_id)
        /\ Len(pkgdir.disk["entities"]) =
              Cardinality({i \in 1..Len(db.entities) :
                              db.entities[i].authority_id = last.authority_id})
        /\ Len(pkgdir.disk["edges"]) =
              Cardinality({i \in 1..Len(db.edges) :
                              db.edges[i].authority_id = last.authority_id})

\* the same for the arguments that are not the empty string
ExportIsOneAuthorityWhenNamed ==
    last.authority_id # <<>> => C25_ExportIsOneAuthority

\* C29 as stated: the authority_id in the manifest export_pkg wrote is the
\* authority whose entities and edges it exported.
C29_ManifestNamesExportedAuthority ==
    last.op = "export" => pkgdir.authority_id = last.authority_id

\* C30 as stated: after export_pkg for an authority and import_pkg of the
\* package into the same store under that authority, every edge the store held
\* is still there with the data it had.
C30_ReimportKeepsEdgeData ==
    (last.op = "import" /\ last.reimport /\ last.ok) =>
        \A i \in 1..Len(prev.edges) :
            \E j \in 1..Len(db.edges) :
                /\ db.edges[j].id = prev.edges[i].id
                /\ db.edges[j].data = prev.edges[i].data

----------------------------------------------------------------------------
(* fkg/changelog/append.py: sessions that append, and a consumer of get_events *)

MaxEvents == 3      \* values the events.seq sequence gives out
FeedSessions == {1, 2}

\* the events of a set in ascending seq order
RECURSIVE OrderBySeq(_)
OrderBySeq(S) ==
    IF S = {} THEN <<>>
    ELSE LET e == CHOOSE x \in S : \A y \in S : x.seq <= y.seq
         IN  <<e>> \o OrderBySeq(S \ {e})

\* get_events(session, since_seq, limit=limit) on the committed rows st
get_events(st, since_seq, limit) ==
    LET rows == {st.events[i] : i \in 1..Len(st.events)}
        found == OrderBySeq({e \in rows : since_seq.t = "null" \/ e.seq > since_seq.n})
    IN  SubSeq(found, 1, IF Len(found) < limit THEN Len(found) ELSE limit)

InitFeed ==
    /\ db = EmptyStore
    /\ prev = EmptyStore
    /\ pkgdir = NoPkg
    /\ last = Idle
    /\ nrun = 0
    /\ pull = NoPull
    /\ sess = EmptyStore
    /\ tmp = NoTmp
    /\ feed = NoFeed
    /\ r1 = JNull
    /\ r2 = JNull

\* append_event in session s: the sequence gives the next value at the flush,
\* the row is the session's own until it commits
FeedAppend(s) ==
    /\ db.seq < MaxEvents
    /\ \E st \in {append_event([db EXCEPT !.events = feed.open[s]], "create_entity",
                               LocalId, JDict(<<>>))} :
          /\ feed' = [feed EXCEPT !.open[s] = st.events]
          /\ db' = [db EXCEPT !.seq = st.seq]
    /\ prev' = db
    /\ UNCHANGED <<pkgdir, last, nrun, pull, sess, tmp, canonVars>>

\* session.commit() of s: its events are rows every session sees
FeedCommit(s) ==
    /\ feed.open[s] # <<>>
    /\ db' = [db EXCEPT !.events = @ \o feed.open[s]]
    /\ feed' = [feed EXCEPT !.open[s] = <<>>]
    /\ prev' = db
    /\ UNCHANGED <<pkgdir, last, nrun, pull, sess, tmp, canonVars>>

\* session.rollback() of s: its events are gone, their seq values are not
\* given out again
FeedRollback(s) ==
    /\ feed.open[s] # <<>>
    /\ feed' = [feed EXCEPT !.open[s] = <<>>]
    /\ prev' = db
    /\ UNCHANGED <<db, pkgdir, last, nrun, pull, sess, tmp, canonVars>>

\* the consumer calls get_events with since_seq the highest seq it has
\* received (None before it has received any)
FeedPoll(limit) ==
    /\ \E got \in {get_events(db, feed.cursor, limit)} :
          /\ got # <<>>
          /\ feed' = [feed EXCEPT !.cursor = JNum(got[Len(got)].seq),
                                  !.received = @ \o [i \in 1..Len(got) |-> got[i].seq]]
    /\ prev' = db
    /\ UNCHANGED <<db, pkgdir, last, nrun, pull, sess, tmp, canonVars>>

NextFeed ==
    \/ \E s \in FeedSessions : FeedAppend(s)
    \/ \E s \in FeedSessions : FeedCommit(s)
    \/ \E s \in FeedSessions : FeedRollback(s)
    \/ \E limit \in {1, MaxEvents} : FeedPoll(limit)

SpecFeed == InitFeed /\ [][NextFeed]_vars

\* C28 as stated: the consumer receives the events in ascending seq order,
\* none twice, and every committed event: a committed event it has not
\* received has a seq above its cursor, so that a later call returns it.
C28_ConsumerGetsEveryEvent ==
    /\ \A i, j \in 1..Len(feed.received) :
          i < j => feed.received[i] < feed.received[j]
    /\ \A i \in 1..Len(db.events) :
          \/ \E j \in 1..Len(feed.received) : feed.received[j] = db.events[i].seq
          \/ feed.cursor.t = "null"
          \/ db.events[i].seq > feed.cursor.n

\* the first conjunct of C28 alone: ascending, none twice
ReceivedAscending ==
    \A i, j \in 1..Len(feed.received) :
        i < j => feed.received[i] < feed.received[j]
====
